---- MODULE Spec2Model ----
(***************************************************************************)
(* A model of the vsl-sdk account session (RpcWrapper, rpc_wrapper.rs),    *)
(* of the signature helpers (helpers.rs), of the claim identity scheme     *)
(* (rpc_messages.rs) and of the faucet verifier loop                       *)
(* (examples/faucet/faucet_verifier.rs).                                   *)
(*                                                                         *)
(* Strings that the code parses or concatenates are sequences of           *)
(* one-character strings.  An address is an abstract 20-byte value; its    *)
(* textual forms are single fixed-width tokens.  Keccak-256 is modelled    *)
(* by its input: two ids are equal exactly when the hashed bytes are.      *)
(***************************************************************************)
EXTENDS Integers, Sequences, FiniteSets, TLC

VARIABLES
    session,        \* "none" or "open": whether an RpcWrapper value exists
    key,            \* RpcWrapper.key
    address,        \* RpcWrapper.address
    nonce,          \* RpcWrapper.nonce
    adopted,        \* the session took its nonce from vsl_getAccountNonce
    remote_nonce,   \* the remote service: next expected nonce of each account
    sent,           \* number of signed mutating requests sent so far
    wire,           \* the latest of them: sender, nonce, settlement target
                    \* and whether the call got its answer (None before the
                    \* first)
    last,           \* what the last session call did
    vstate,         \* faucet verifier: "init", "running" or "stopped"
    db,             \* faucet verifier: the sled store, submitter -> seconds
    clock,          \* seconds since the epoch (Timestamp::now().seconds())
    settings,       \* faucet verifier: the loaded Settings
    vlast,          \* faucet verifier: what the last loop iteration did
    settlements,    \* faucet verifier: the claim ids of the settlement
                    \* requests it has sent, in order
    payload,        \* pure functions: the value a caller holds (a message
                    \* for the signature helpers, the inputs of a claim
                    \* id, of an amount or of a timestamp function)
    signed_message, \* signature helpers: the SignedMessage at hand, made by
                    \* into_signed or received from elsewhere
    returned,       \* pure functions: what the last call returned
    fstate,         \* faucet: "init", "running" or "stopped"
    max_ts,         \* faucet: the timestamp the next listing asks from
    claims,         \* faucet: the ids of the claims it has taken up
    response        \* faucet: the listed claims it has still to go through

svars == <<session, key, address, nonce, adopted, remote_nonce, sent, wire, last>>
vvars == <<vstate, db, clock, settings, vlast, settlements>>
hvars == <<payload, signed_message, returned>>
fvars == <<fstate, max_ts, claims, response>>
vars == <<session, key, address, nonce, adopted, remote_nonce, sent, wire, last,
          vstate, db, clock, settings, vlast, settlements,
          payload, signed_message, returned,
          fstate, max_ts, claims, response>>

----------------------------------------------------------------------------
(* Bounds of the model *)

\* largest account nonce the remote starts from or a caller passes in
MaxStartNonce == 1
\* number of mutating requests after which the model stops sending
MaxSent == 2
\* last clock reading of the model
MaxClock == 2
\* smallest units per token (ONE_VSL_TOKEN, scaled down)
TokenUnit == 2
\* the min_waiting_time of the verifier's settings, in seconds
MinWaitingTime == 1
\* width in bits of the integer under Amount (u128, scaled down)
AmountBits == 7
\* largest decimals count passed to the decimal formatter and parser
MaxDecimals == 3

\* the widths of Timestamp's seconds (u64) and nanos (u32), and the number
\* of nanoseconds in a second (1_000_000_000), scaled down
SecondsBits == 2

NanosBits == 3

NanosPerSecond == 5

\* the largest number of claims in one listing (64 in the remote service)
MaxListed == 2

----------------------------------------------------------------------------
(* Values *)

\* Option<T>: None, or Some(x) holding x
None == <<>>

Some(x) == <<x>>

Unwrap(o) == o[1]

\* private keys and the address each one signs for (signer.address())
Keys == {"k1", "k2"}

AddressOfKey(k) == IF k = "k1" THEN "A1" ELSE "A2"

\* A1: the key k1 (the faucet verifier's account in the verifier loop),
\* A2, A3, A6: submitters, A4: the master account, A5: the validator
Addresses == {"A1", "A2", "A3", "A4", "A5", "A6"}

\* the hex digits of an address in lower case
LowerHex(a) ==
    CASE a = "A1" -> "a1"
      [] a = "A2" -> "a2"
      [] a = "A3" -> "a3"
      [] a = "A4" -> "a4"
      [] a = "A5" -> "a5"
      [] a = "A6" -> "a6"
      [] OTHER -> a

\* Address as Display prints it: 0x and the EIP-55 mixed-case digits
AddressToString(a) == "0x" \o a

\* the lower-case form of each address text
LowerCaseOf ==
    [s \in {AddressToString(a) : a \in Addresses} |->
        "0x" \o LowerHex(CHOOSE a \in Addresses : s = AddressToString(a))]

\* str::to_lowercase on the text of an address
ToLowerAddress(s) ==
    IF s \in DOMAIN LowerCaseOf THEN LowerCaseOf[s] ELSE s

\* the texts that parse as an address
TextsOf(a) == {"0x" \o a, "0x" \o LowerHex(a), a, LowerHex(a)}

ParsedAddress ==
    [s \in UNION {TextsOf(a) : a \in Addresses} |->
        CHOOSE a \in Addresses : s \in TextsOf(a)]

\* Address::from_str: the digits in either case, with or without 0x
AddressFromStr(s) ==
    IF s \in DOMAIN ParsedAddress THEN Some(ParsedAddress[s]) ELSE None

DigitChars == <<"0", "1", "2", "3", "4", "5", "6", "7", "8", "9">>

\* u64::to_string: decimal digits, no leading zero
RECURSIVE U64ToString(_)
U64ToString(n) ==
    IF n < 10 THEN <<DigitChars[n + 1]>>
    ELSE Append(U64ToString(n \div 10), DigitChars[(n % 10) + 1])

\* Keccak-256, modelled by the bytes that were hashed
Keccak256(bytes) == [keccak |-> bytes]

\* B256 as text: 0x and the hex digits of the digest
B256ToString(h) == <<"0x", h>>

\* B256::from_str
B256FromStr(s) ==
    IF Len(s) = 2 /\ s[1] = "0x" THEN Some(s[2]) ELSE None

HexChars ==
    <<"0", "1", "2", "3", "4", "5", "6", "7", "8", "9",
      "a", "b", "c", "d", "e", "f", "A", "B", "C", "D", "E", "F">>

IsHexChar(c) == \E i \in 1..Len(HexChars) : HexChars[i] = c

\* char::to_digit(16)
HexValue(c) ==
    LET i == CHOOSE k \in 1..Len(HexChars) : HexChars[k] = c
    IN  IF i <= 16 THEN i - 1 ELSE i - 7

Ok(v) == [ok |-> TRUE, val |-> v, err |-> "none"]

Err(e) == [ok |-> FALSE, val |-> 0, err |-> e]

RECURSIVE HexDigitsValue(_)
HexDigitsValue(d) ==
    IF Len(d) = 0 THEN 0
    ELSE 16 * HexDigitsValue(SubSeq(d, 1, Len(d) - 1)) + HexValue(d[Len(d)])

StartsWith(s, prefix) ==
    /\ Len(s) >= Len(prefix)
    /\ SubSeq(s, 1, Len(prefix)) = prefix

\* the digits of format!("{:x}"): lower case, no leading zero
RECURSIVE LowerHexDigits(_)
LowerHexDigits(n) ==
    IF n < 16 THEN <<HexChars[n + 1]>>
    ELSE Append(LowerHexDigits(n \div 16), HexChars[(n % 16) + 1])

\* Amount::to_hex_str
to_hex_str(n) == <<"0", "x">> \o LowerHexDigits(n)

\* Amount::from_hex_str
from_hex_str(s) ==
    LET \* u128::from_str_radix(s, 16): an optional + sign, then one or more hex
        \* digits of either case.  The strings of the model are too short to
        \* exceed 128 bits.
        from_str_radix_16(src) ==
            LET digits == IF Len(src) > 0 /\ src[1] = "+" THEN Tail(src) ELSE src
            IN  IF Len(digits) = 0 THEN Err("ParseInt")
                ELSE IF \E i \in 1..Len(digits) : ~IsHexChar(digits[i])
                     THEN Err("ParseInt")
                ELSE Ok(HexDigitsValue(digits))
    IN
    IF ~StartsWith(s, <<"0", "x">>) THEN Err("NotHex")
    ELSE LET d == SubSeq(s, 3, Len(s))
         IN  IF d = <<"0">> THEN Ok(0)
             ELSE IF StartsWith(d, <<"0">>) THEN Err("LeadingZeros")
             ELSE from_str_radix_16(d)

----------------------------------------------------------------------------
(* Signatures: helpers.rs *)

\* A signature names the address of the key that made it and the message
\* bytes it was made over; ill-formed signature bytes recover to nothing.
SignatureBy(a, msg) == [wellformed |-> TRUE, by |-> a, over |-> msg]

MalformedSignature == [wellformed |-> FALSE, by |-> "A0", over |-> <<>>]

\* into_signed that signs the hash of an empty buffer
into_signed_unencoded(msg, signer) ==
    [tx |-> msg, signature |-> SignatureBy(AddressOfKey(signer), <<>>)]

\* IntoSigned::into_signed
into_signed(msg, signer) ==
    [tx |-> msg, signature |-> SignatureBy(AddressOfKey(signer), msg)]

\* recover_address that takes no account of the message
recover_address_of_any(msg, sig) ==
    IF ~sig.wellformed THEN None ELSE Some(sig.by)

\* IntoSigned::recover_address: recovery over other bytes than the signed
\* ones yields an address nobody holds ("A0")
recover_address(msg, sig) ==
    IF ~sig.wellformed THEN None
    ELSE IF sig.over = msg THEN Some(sig.by)
    ELSE Some("A0")

\* HasSender::sender as text, for the message types that have a sender
sender_str(msg) ==
    IF msg.type = "CreateAssetMessage" THEN msg.account_id ELSE msg.from

\* sender() that takes the owner of a verified claim for its sender
sender_or_owner(msg) ==
    IF msg.type = "VerifiedClaim" THEN AddressFromStr(msg.claim_owner)
    ELSE IF msg.type = "SettledVerifiedClaim"
    THEN AddressFromStr(msg.verified_claim.claim_owner)
    ELSE AddressFromStr(sender_str(msg))

\* HasSender::sender
sender(msg) ==
    IF msg.type \in {"VerifiedClaim", "SettledVerifiedClaim"} THEN None
    ELSE AddressFromStr(sender_str(msg))

\* IntoSigned::check
check(signed) ==
    LET data == signed.tx
        signer == recover_address(data, signed.signature)
    IN  IF signer = None THEN FALSE
        ELSE IF sender(data) = None THEN FALSE
        ELSE Unwrap(signer) = Unwrap(sender(data))

\* check_and_strip_signature that strips without checking
strip_signature(signed) == Some(signed.tx)

\* IntoSigned::check_and_strip_signature
check_and_strip_signature(signed) ==
    IF ~check(signed) THEN None ELSE Some(signed.tx)

----------------------------------------------------------------------------
(* Claim identity: rpc_messages.rs *)

\* the id that also hashes the time of the call
claim_id_hash_timed(owner, nonce_s, claim) ==
    Keccak256(<<ToLowerAddress(AddressToString(owner))>> \o nonce_s \o claim
              \o <<clock>>)

\* IdentifiableClaim::claim_id_hash: the hasher is fed the owner in lower
\* case, then the nonce string, then the claim string
claim_id_hash(owner, nonce_s, claim) ==
    Keccak256(<<ToLowerAddress(AddressToString(owner))>> \o nonce_s \o claim)

\* the claim id that leaves the nonce out
claim_id_without_nonce(submitted) ==
    claim_id_hash(Unwrap(AddressFromStr(submitted.from)), <<>>, submitted.claim)

\* IdentifiableClaim::claim_id for SubmittedClaim
claim_id(submitted) ==
    claim_id_hash(Unwrap(AddressFromStr(submitted.from)), submitted.nonce,
                  submitted.claim)

----------------------------------------------------------------------------
(* The remote service, seen from the client *)

\* What can happen to one signed request:
\*   "unreached"  the transport fails before the service sees the request
\*   "rejected"   the service answers with an error
\*   "lost"       the service accepts, the answer does not arrive (or is not
\*                of the expected JSON type)
\*   "answered"   the service accepts and the answer arrives
NetOutcomes == {"unreached", "rejected", "lost", "answered"}

RemoteOutcomes(from, n) ==
    LET \* the service accepts a request only at the account's next nonce
        RemoteAccepts == n = U64ToString(remote_nonce[from])
    IN
    IF RemoteAccepts THEN NetOutcomes ELSE {"unreached", "rejected"}

RemoteAfter(from, net) ==
    IF net \in {"lost", "answered"}
    THEN [remote_nonce EXCEPT ![from] = @ + 1]
    ELSE remote_nonce

----------------------------------------------------------------------------
(* The account session: RpcWrapper *)

NoCall ==
    [op |-> "none", kind |-> "none", requests |-> <<>>, result |-> "none",
     nonce_before |-> 0, arg |-> None, reply |-> None]

Returned(op, kind, requests, result, arg, reply) ==
    last' = [op |-> op, kind |-> kind, requests |-> requests,
             result |-> result, nonce_before |-> nonce, arg |-> arg,
             reply |-> reply]

\* from_signer that starts every session at nonce 0
from_signer_from_zero(signer, nonce_arg, query) ==
    LET reply == remote_nonce[AddressOfKey(signer)]
    IN  /\ session = "none"
        /\ IF query = "err"
           THEN /\ Returned("from_signer", "open", <<"vsl_getAccountNonce">>,
                            "RpcError", nonce_arg, None)
                /\ UNCHANGED <<session, key, address, nonce, adopted>>
           ELSE /\ session' = "open"
                /\ key' = signer
                /\ address' = AddressOfKey(signer)
                /\ nonce' = IF nonce_arg = None THEN 0 ELSE Unwrap(nonce_arg)
                /\ adopted' = (nonce_arg = None)
                /\ Returned("from_signer", "open", <<"vsl_getAccountNonce">>,
                            "Ok", nonce_arg, Some(reply))
        /\ UNCHANGED <<remote_nonce, sent, wire>>

\* RpcWrapper::from_signer.  `query` is the outcome of vsl_getAccountNonce;
\* the argument of unwrap_or is evaluated before unwrap_or is called, so the
\* query is sent whatever nonce_arg is.
from_signer(signer, nonce_arg, query) ==
    LET reply == remote_nonce[AddressOfKey(signer)]
    IN  /\ session = "none"
        /\ IF query = "err"
           THEN /\ Returned("from_signer", "open", <<"vsl_getAccountNonce">>,
                            "RpcError", nonce_arg, None)
                /\ UNCHANGED <<session, key, address, nonce, adopted>>
           ELSE /\ session' = "open"
                /\ key' = signer
                /\ address' = AddressOfKey(signer)
                /\ nonce' = IF nonce_arg = None THEN reply ELSE Unwrap(nonce_arg)
                /\ adopted' = (nonce_arg = None)
                /\ Returned("from_signer", "open", <<"vsl_getAccountNonce">>,
                            "Ok", nonce_arg, Some(reply))
        /\ UNCHANGED <<remote_nonce, sent, wire>>

\* RpcWrapper::inc_nonce
inc_nonce == nonce' = nonce + 1

\* RpcWrapper::sign failed: the `?` returns before anything is sent
SignFailed(op) ==
    /\ Returned(op, "mutating", <<>>, "SignError", None, None)
    /\ UNCHANGED <<nonce, remote_nonce, sent, wire>>

\* rpc_client.request(method, [signed message]) with outcome `net`
request(method, msg, net) ==
    LET \* the claim id a settlement request names
        target_of ==
            IF msg.type = "SettleClaimMessage" THEN msg.target_claim_id ELSE None
    IN
    /\ net \in RemoteOutcomes(Unwrap(AddressFromStr(sender_str(msg))), msg.nonce)
    /\ sent' = sent + 1
    /\ wire' = Some([from |-> sender_str(msg), nonce |-> msg.nonce,
                     target |-> target_of, ok |-> net = "answered"])
    /\ remote_nonce' = RemoteAfter(Unwrap(AddressFromStr(sender_str(msg))), net)

CanCall ==
    /\ session = "open"
    /\ sent < MaxSent

\* the session's claim id over the owner text as Display prints it, in
\* mixed case
RpcWrapper_claim_id_mixed_case(claim) ==
    Keccak256(<<AddressToString(address)>> \o U64ToString(nonce) \o claim)

\* RpcWrapper::claim_id: the id of the claim the session would submit next
RpcWrapper_claim_id(claim) ==
    claim_id_hash(address, U64ToString(nonce), claim)

\* RpcWrapper::submit_claim
submit_claim(claim, to, sign_ok, net, parses) ==
    LET submitted_claim ==
            [type |-> "SubmittedClaim", claim |-> claim,
             nonce |-> U64ToString(nonce),
             to |-> [i \in 1..Len(to) |-> AddressToString(to[i])],
             from |-> AddressToString(address)]
    IN  /\ CanCall
        /\ IF ~sign_ok THEN SignFailed("submit_claim")
           ELSE /\ request("vsl_submitClaim", submitted_claim, net)
                /\ IF net # "answered"
                   THEN /\ UNCHANGED nonce
                        /\ Returned("submit_claim", "mutating",
                                    <<"vsl_submitClaim">>, "RpcError", Some(submitted_claim), Some(net))
                   ELSE /\ inc_nonce
                        /\ Returned("submit_claim", "mutating",
                                    <<"vsl_submitClaim">>,
                                    IF parses THEN "Ok" ELSE "ParseError",
                                    Some(submitted_claim), Some(net))
        /\ UNCHANGED <<session, key, address, adopted>>

\* settle_claim that sends the request a second time when the first one fails
settle_claim_retry(target_id, sign_ok, net) ==
    LET settle_claim_message ==
            [type |-> "SettleClaimMessage",
             from |-> AddressToString(address),
             nonce |-> U64ToString(nonce),
             target_claim_id |-> B256ToString(target_id)]
        entry == [from |-> settle_claim_message.from,
                  nonce |-> settle_claim_message.nonce,
                  target |-> settle_claim_message.target_claim_id,
                  ok |-> net = "answered"]
    IN  /\ session = "open"
        /\ sent < MaxSent
        /\ IF ~sign_ok
           THEN /\ last' = [op |-> "settle_claim", kind |-> "mutating",
                            requests |-> <<>>, result |-> "SignError",
                            nonce_before |-> nonce, arg |-> None, reply |-> None]
                /\ UNCHANGED <<nonce, remote_nonce, sent, wire>>
           ELSE /\ net \in RemoteOutcomes(address, settle_claim_message.nonce)
                /\ remote_nonce' = RemoteAfter(address, net)
                /\ IF net # "answered"
                   THEN /\ sent' = sent + 2
                        /\ wire' = Some(entry)
                        /\ UNCHANGED nonce
                        /\ last' = [op |-> "settle_claim", kind |-> "mutating",
                                    requests |-> <<"vsl_settleClaim", "vsl_settleClaim">>,
                                    result |-> "RpcError", nonce_before |-> nonce,
                                    arg |-> Some(settle_claim_message),
                                    reply |-> Some(net)]
                   ELSE /\ sent' = sent + 1
                        /\ wire' = Some(entry)
                        /\ nonce' = nonce + 1
                        /\ last' = [op |-> "settle_claim", kind |-> "mutating",
                                    requests |-> <<"vsl_settleClaim">>,
                                    result |-> "Ok", nonce_before |-> nonce,
                                    arg |-> Some(settle_claim_message),
                                    reply |-> Some(net)]
        /\ UNCHANGED <<session, key, address, adopted>>

\* RpcWrapper::settle_claim: the answer is not parsed
settle_claim(target_id, sign_ok, net) ==
    LET settle_claim_message ==
            [type |-> "SettleClaimMessage",
             from |-> AddressToString(address),
             nonce |-> U64ToString(nonce),
             target_claim_id |-> B256ToString(target_id)]
    IN  /\ CanCall
        /\ IF ~sign_ok THEN SignFailed("settle_claim")
           ELSE /\ request("vsl_settleClaim", settle_claim_message, net)
                /\ IF net # "answered"
                   THEN /\ UNCHANGED nonce
                        /\ Returned("settle_claim", "mutating",
                                    <<"vsl_settleClaim">>, "RpcError", Some(settle_claim_message), Some(net))
                   ELSE /\ inc_nonce
                        /\ Returned("settle_claim", "mutating",
                                    <<"vsl_settleClaim">>, "Ok", Some(settle_claim_message), Some(net))
        /\ UNCHANGED <<session, key, address, adopted>>

\* pay that advances the nonce before looking at the outcome of the request
pay_inc_before_check(to, amount, sign_ok, net, parses) ==
    LET pay_message ==
            [type |-> "PayMessage",
             from |-> AddressToString(address),
             nonce |-> U64ToString(nonce),
             to |-> AddressToString(to),
             amount |-> amount]
    IN  /\ session = "open"
        /\ sent < MaxSent
        /\ IF ~sign_ok
           THEN /\ last' = [op |-> "pay", kind |-> "mutating", requests |-> <<>>,
                            result |-> "SignError", nonce_before |-> nonce,
                            arg |-> None, reply |-> None]
                /\ UNCHANGED <<nonce, remote_nonce, sent, wire>>
           ELSE /\ net \in RemoteOutcomes(address, pay_message.nonce)
                /\ sent' = sent + 1
                /\ wire' = Some([from |-> pay_message.from,
                                 nonce |-> pay_message.nonce,
                                 target |-> None,
                                 ok |-> net = "answered"])
                /\ remote_nonce' = RemoteAfter(address, net)
                /\ nonce' = nonce + 1
                /\ last' = [op |-> "pay", kind |-> "mutating",
                            requests |-> <<"vsl_pay">>,
                            result |-> IF net # "answered" THEN "RpcError"
                                       ELSE IF parses THEN "Ok" ELSE "ParseError",
                            nonce_before |-> nonce,
                            arg |-> Some(pay_message), reply |-> Some(net)]
        /\ UNCHANGED <<session, key, address, adopted>>

\* RpcWrapper::pay
pay(to, amount, sign_ok, net, parses) ==
    LET pay_message ==
            [type |-> "PayMessage",
             from |-> AddressToString(address),
             nonce |-> U64ToString(nonce),
             to |-> AddressToString(to),
             amount |-> amount]
    IN  /\ CanCall
        /\ IF ~sign_ok THEN SignFailed("pay")
           ELSE /\ request("vsl_pay", pay_message, net)
                /\ IF net # "answered"
                   THEN /\ UNCHANGED nonce
                        /\ Returned("pay", "mutating", <<"vsl_pay">>,
                                    "RpcError", Some(pay_message), Some(net))
                   ELSE /\ inc_nonce
                        /\ Returned("pay", "mutating", <<"vsl_pay">>,
                                    IF parses THEN "Ok" ELSE "ParseError",
                                    Some(pay_message), Some(net))
        /\ UNCHANGED <<session, key, address, adopted>>

\* RpcWrapper::create_asset_message: AssetData::try_into never fails
create_asset_message(ticker_symbol) ==
    [type |-> "CreateAssetMessage",
     account_id |-> AddressToString(address),
     nonce |-> U64ToString(nonce),
     ticker_symbol |-> ticker_symbol]

\* RpcWrapper::create_asset: the answer holds an asset id and a claim id
create_asset(ticker_symbol, sign_ok, net, parses) ==
    /\ CanCall
    /\ IF ~sign_ok THEN SignFailed("create_asset")
       ELSE /\ request("vsl_createAsset", create_asset_message(ticker_symbol), net)
            /\ IF net # "answered"
               THEN /\ UNCHANGED nonce
                    /\ Returned("create_asset", "mutating",
                                <<"vsl_createAsset">>, "RpcError", Some(create_asset_message(ticker_symbol)), Some(net))
               ELSE /\ inc_nonce
                    /\ Returned("create_asset", "mutating",
                                <<"vsl_createAsset">>,
                                IF parses THEN "Ok" ELSE "ParseError",
                                Some(create_asset_message(ticker_symbol)), Some(net))
    /\ UNCHANGED <<session, key, address, adopted>>

\* transfer_asset_message that numbers the request one ahead of the session
transfer_asset_message_ahead(asset_id, to) ==
    [type |-> "TransferAssetMessage",
     from |-> AddressToString(address),
     nonce |-> U64ToString(nonce + 1),
     to |-> AddressToString(to),
     asset_id |-> asset_id]

\* RpcWrapper::transfer_asset_message
transfer_asset_message(asset_id, to) ==
    [type |-> "TransferAssetMessage",
     from |-> AddressToString(address),
     nonce |-> U64ToString(nonce),
     to |-> AddressToString(to),
     asset_id |-> asset_id]

\* RpcWrapper::transfer_asset
transfer_asset(asset_id, to, sign_ok, net, parses) ==
    /\ CanCall
    /\ IF ~sign_ok THEN SignFailed("transfer_asset")
       ELSE /\ request("vsl_transferAsset", transfer_asset_message(asset_id, to), net)
            /\ IF net # "answered"
               THEN /\ UNCHANGED nonce
                    /\ Returned("transfer_asset", "mutating",
                                <<"vsl_transferAsset">>, "RpcError", Some(transfer_asset_message(asset_id, to)), Some(net))
               ELSE /\ inc_nonce
                    /\ Returned("transfer_asset", "mutating",
                                <<"vsl_transferAsset">>,
                                IF parses THEN "Ok" ELSE "ParseError",
                                Some(transfer_asset_message(asset_id, to)), Some(net))
    /\ UNCHANGED <<session, key, address, adopted>>

\* RpcWrapper::set_account_state
set_account_state(state, sign_ok, net, parses) ==
    LET set_state_message ==
            [type |-> "SetStateMessage",
             from |-> AddressToString(address),
             nonce |-> U64ToString(nonce),
             state |-> state]
    IN  /\ CanCall
        /\ IF ~sign_ok THEN SignFailed("set_account_state")
           ELSE /\ request("vsl_setAccountState", set_state_message, net)
                /\ IF net # "answered"
                   THEN /\ UNCHANGED nonce
                        /\ Returned("set_account_state", "mutating",
                                    <<"vsl_setAccountState">>, "RpcError",
                                    Some(set_state_message), Some(net))
                   ELSE /\ inc_nonce
                        /\ Returned("set_account_state", "mutating",
                                    <<"vsl_setAccountState">>,
                                    IF parses THEN "Ok" ELSE "ParseError",
                                    Some(set_state_message), Some(net))
        /\ UNCHANGED <<session, key, address, adopted>>

\* The read-only methods of RpcWrapper (all take &self): the RPC method each
\* one calls, and whether the answer is parsed into a domain value after the
\* transport has returned it.
ReadOps ==
    { [op |-> "get_settled_claim_by_id", method |-> "vsl_getSettledClaimById", parsed |-> FALSE],
      [op |-> "get_submitted_claim_by_id", method |-> "vsl_getSubmittedClaimById", parsed |-> FALSE],
      [op |-> "get_claim_data_by_id", method |-> "vsl_getClaimDataById", parsed |-> FALSE],
      [op |-> "get_proof_by_id", method |-> "vsl_getProofById", parsed |-> FALSE],
      [op |-> "get_balance", method |-> "vsl_getBalance", parsed |-> TRUE],
      [op |-> "get_asset_balance", method |-> "vsl_getAssetBalance", parsed |-> TRUE],
      [op |-> "get_asset_balances", method |-> "vsl_getAssetBalances", parsed |-> TRUE],
      [op |-> "get_account", method |-> "vsl_getAccount", parsed |-> TRUE],
      [op |-> "get_asset_by_id", method |-> "vsl_getAssetById", parsed |-> TRUE],
      [op |-> "get_account_state", method |-> "vsl_getAccountState", parsed |-> TRUE],
      [op |-> "list_settled_claims_metadata", method |-> "vsl_listSettledClaimsMetadata", parsed |-> FALSE],
      [op |-> "list_submitted_claims_metadata", method |-> "vsl_listSubmittedClaimsMetadata", parsed |-> FALSE],
      [op |-> "list_settled_claims_for_receiver", method |-> "vsl_listSettledClaimsForReceiver", parsed |-> FALSE],
      [op |-> "list_submitted_claims_for_receiver", method |-> "vsl_listSubmittedClaimsForReceiver", parsed |-> FALSE],
      [op |-> "list_settled_claims_for_sender", method |-> "vsl_listSettledClaimsForSender", parsed |-> FALSE],
      [op |-> "list_submitted_claims_for_sender", method |-> "vsl_listSubmittedClaimsForSender", parsed |-> FALSE] }

\* a read-only call that advances the nonce when the remote answers
read_only_counting(r, result) ==
    /\ session = "open"
    /\ nonce <= MaxStartNonce + MaxSent
    /\ nonce' = IF result = "RpcError" THEN nonce ELSE nonce + 1
    /\ last' = [op |-> r.op, kind |-> "read", requests |-> <<r.method>>,
                result |-> result, nonce_before |-> nonce, arg |-> None,
                reply |-> None]
    /\ UNCHANGED <<session, key, address, adopted, remote_nonce, sent, wire>>

\* one read-only call: r in ReadOps, result in ReadResults(r)
read_only(r, result) ==
    /\ session = "open"
    /\ Returned(r.op, "read", <<r.method>>, result, None, None)
    /\ UNCHANGED <<session, key, address, nonce, adopted, remote_nonce, sent, wire>>

----------------------------------------------------------------------------
(* The session driven by a caller *)

Accounts == {AddressOfKey(k) : k \in Keys}

\* inputs of the calls
SampleAmounts == {<<"0", "x", "1">>}
SampleReceivers == {"A3"}

\* no loop iteration yet
NoIteration ==
    [verdict |-> "none", trace |-> <<>>, item |-> None, get |-> "none",
     stored |-> None, flushed |-> None]

\* the Settings the verifier loads
DefaultSettings ==
    [private_key |-> "k1", master_account_address |-> "A4",
     validator_address |-> "A5", max_amount |-> 1,
     min_waiting_time |-> MinWaitingTime]

\* no signature helper has been applied to anything
NoHelperCall ==
    /\ payload = None
    /\ signed_message = None
    /\ returned = None

\* the faucet has not been started
NoFaucet ==
    /\ fstate = "init"
    /\ max_ts = None
    /\ claims = {}
    /\ response = <<>>

Init ==
    /\ session = "none"
    /\ key = "none"
    /\ address = "none"
    /\ nonce = 0
    /\ adopted = FALSE
    /\ remote_nonce \in [Accounts -> 0..MaxStartNonce]
    /\ sent = 0
    /\ wire = None
    /\ last = NoCall
    /\ vstate = "init"
    /\ db = [a \in Addresses |-> None]
    /\ clock = 0
    /\ settings = DefaultSettings
    /\ vlast = NoIteration
    /\ settlements = <<>>
    /\ NoHelperCall
    /\ NoFaucet

Open ==
    /\ \E signer \in Keys, nonce_arg \in {None} \cup {Some(n) : n \in 0..MaxStartNonce},
          query \in {"ok", "err"} :
          from_signer(signer, nonce_arg, query)
    /\ UNCHANGED <<vvars, hvars, fvars>>

SubmitClaim ==
    /\ \E claim \in SampleAmounts, to \in {<<r>> : r \in SampleReceivers},
          sign_ok \in BOOLEAN, net \in NetOutcomes, parses \in BOOLEAN :
          submit_claim(claim, to, sign_ok, net, parses)
    /\ UNCHANGED <<vvars, hvars, fvars>>

SettleClaim ==
    LET SampleClaimIds == {claim_id_hash("A3", <<"0">>, <<"0", "x", "1">>)}
    IN
    /\ \E target_id \in SampleClaimIds, sign_ok \in BOOLEAN, net \in NetOutcomes :
          settle_claim(target_id, sign_ok, net)
    /\ UNCHANGED <<vvars, hvars, fvars>>

Pay ==
    /\ \E to \in SampleReceivers, amount \in SampleAmounts,
          sign_ok \in BOOLEAN, net \in NetOutcomes, parses \in BOOLEAN :
          pay(to, amount, sign_ok, net, parses)
    /\ UNCHANGED <<vvars, hvars, fvars>>

CreateAsset ==
    /\ \E sign_ok \in BOOLEAN, net \in NetOutcomes, parses \in BOOLEAN :
          create_asset("TKN", sign_ok, net, parses)
    /\ UNCHANGED <<vvars, hvars, fvars>>

TransferAsset ==
    /\ \E to \in SampleReceivers,
          sign_ok \in BOOLEAN, net \in NetOutcomes, parses \in BOOLEAN :
          transfer_asset("asset1", to, sign_ok, net, parses)
    /\ UNCHANGED <<vvars, hvars, fvars>>

SetAccountState ==
    /\ \E sign_ok \in BOOLEAN, net \in NetOutcomes, parses \in BOOLEAN :
          set_account_state("state1", sign_ok, net, parses)
    /\ UNCHANGED <<vvars, hvars, fvars>>

ReadOnly ==
    LET ReadResults(r) ==
            IF r.parsed THEN {"Ok", "RpcError", "ParseError"} ELSE {"Ok", "RpcError"}
    IN
    /\ \E r \in ReadOps : \E result \in ReadResults(r) : read_only(r, result)
    /\ UNCHANGED <<vvars, hvars, fvars>>

IncNonceCall ==
    LET \* a direct call of the public method inc_nonce by the owner of the session
        inc_nonce_call ==
            /\ session = "open"
            /\ nonce <= MaxStartNonce + MaxSent
            /\ inc_nonce
            /\ Returned("inc_nonce", "direct", <<>>, "Ok", None, None)
            /\ UNCHANGED <<session, key, address, adopted, remote_nonce, sent, wire>>
    IN
    /\ inc_nonce_call
    /\ UNCHANGED <<vvars, hvars, fvars>>

Mutating ==
    \/ SubmitClaim
    \/ SettleClaim
    \/ Pay
    \/ CreateAsset
    \/ TransferAsset
    \/ SetAccountState

\* the session used through from_signer, the mutating and the read-only calls
Next ==
    \/ Open
    \/ Mutating
    \/ ReadOnly

Spec == Init /\ [][Next]_vars

\* the same, with direct calls of the public inc_nonce
PublicNext ==
    \/ Next
    \/ IncNonceCall

PublicSpec == Init /\ [][PublicNext]_vars

----------------------------------------------------------------------------
(* The faucet verifier: examples/faucet/faucet_verifier.rs *)

\* Amount::from_vsl_tokens
from_vsl_tokens(tokens) == tokens * TokenUnit

\* bincode::encode_to_vec of a u64, standard configuration: one byte below
\* 251, else the marker 251 and the value in two little-endian bytes
encode_to_vec(n) ==
    IF n < 251 THEN <<n>> ELSE <<251, n % 256, n \div 256>>

\* bincode::decode_from_slice::<u64>: bytes after the value are left unread
decode_from_slice(bytes) ==
    IF Len(bytes) = 0 THEN Err("UnexpectedEnd")
    ELSE IF bytes[1] < 251 THEN Ok(bytes[1])
    ELSE IF bytes[1] = 251 /\ Len(bytes) >= 3 THEN Ok(bytes[2] + 256 * bytes[3])
    ELSE Err("UnexpectedEnd")

\* serde_json::from_str::<PayMessage> on the claim text of a settled claim
serde_json_from_str_PayMessage(text) ==
    IF text.json = "PayMessage"
    THEN Some([type |-> "PayMessage", from |-> text.from, to |-> text.to])
    ELSE None

\* the JSON text of a payment
PayMessageJson(from, to) == [json |-> "PayMessage", from |-> from, to |-> to]

\* a settled claim as the remote stores it, signed by `signer`
SettledClaim(claim, signer) ==
    LET tx == [type |-> "SettledVerifiedClaim",
               verified_claim |-> [type |-> "VerifiedClaim", claim |-> claim]]
    IN  [data |-> [tx |-> tx, signature |-> SignatureBy(signer, tx)]]

ProofId(tag) == Keccak256(<<tag>>)

\* the settled claims the remote holds, by id
RemoteSettledClaim(id) ==
    LET master == AddressToString(DefaultSettings.master_account_address)
        validator == DefaultSettings.validator_address
        paid(a) == SettledClaim(PayMessageJson(master, AddressToString(a)), validator)
    IN  CASE id = ProofId("paid_A2") -> Some(paid("A2"))
          [] id = ProofId("paid_A3") -> Some(paid("A3"))
          [] id = ProofId("paid_A6") -> Some(paid("A6"))
          [] id = ProofId("bad_signature") ->
                 Some([data |-> [tx |-> paid("A3").data.tx,
                                 signature |-> MalformedSignature]])
          [] id = ProofId("self_signed") ->
                 Some(SettledClaim(PayMessageJson(master, AddressToString("A3")), "A3"))
          [] id = ProofId("not_a_payment") ->
                 Some(SettledClaim([json |-> "text"], validator))
          [] id = ProofId("other_payer") ->
                 Some(SettledClaim(PayMessageJson(AddressToString("A3"),
                                                  AddressToString("A3")), validator))
          [] id = ProofId("bad_receiver") ->
                 Some(SettledClaim(PayMessageJson(master, "zz"), validator))
          [] OTHER -> None

ProofSteps ==
    <<"proof_parse", "proof_lookup", "proof_signature", "proof_validator",
      "proof_pay_message", "proof_sender", "proof_master",
      "proof_receiver_parse", "proof_receiver">>

\* the proof steps, and those that follow the remote lookup
AfterDbGet == {ProofSteps[i] : i \in 1..Len(ProofSteps)}

StepsOf(path) ==
    LET \* the steps of one loop iteration, in the order of the code
        CommonSteps ==
            <<"deserialize", "signature", "verifier_count", "verifier_parse",
              "verifier_is_self", "sender", "amount_parse", "amount_max", "db_get">>
        RecordSteps == <<"decode", "waiting_time">>
        CommitSteps == <<"encode", "db_insert", "db_flush", "settle_claim">>
    IN
    CommonSteps \o (IF path = "record" THEN RecordSteps ELSE ProofSteps)
                \o CommitSteps

Traces ==
    [path \in {"record", "proof"} |->
        [step \in {StepsOf(path)[i] : i \in 1..Len(StepsOf(path))} |->
            SubSeq(StepsOf(path), 1,
                   CHOOSE i \in 1..Len(StepsOf(path)) : StepsOf(path)[i] = step)]]

\* the steps an iteration went through when `step` was its last one
TraceTo(path, step) == Traces[path][step]

Outcome(step, path) == [step |-> step, path |-> path]

\* the verifier-set check that passes when the verifier is one of several
check_verifier_listed(to, account_address) ==
    IF Len(to) = 0 THEN "verifier_count"
    ELSE IF \A i \in 1..Len(to) : AddressFromStr(to[i]) = None
    THEN "verifier_parse"
    ELSE IF \A i \in 1..Len(to) : AddressFromStr(to[i]) # Some(account_address)
    THEN "verifier_is_self"
    ELSE "passed"

\* lines 129-143: exactly one verifier, parsable, equal to the account
check_verifier(to, account_address) ==
    IF Len(to) # 1 THEN "verifier_count"
    ELSE IF AddressFromStr(to[1]) = None THEN "verifier_parse"
    ELSE IF Unwrap(AddressFromStr(to[1])) # account_address
    THEN "verifier_is_self"
    ELSE "passed"

\* the amount check that also refuses the maximum itself
check_amount_below(claim, max_amount) ==
    LET amount == from_hex_str(claim)
    IN  IF ~amount.ok THEN "amount_parse"
        ELSE IF amount.val >= max_amount THEN "amount_max"
        ELSE "passed"

\* lines 148-155: the amount parses and is not above the maximum
check_amount(claim, max_amount) ==
    LET amount == from_hex_str(claim)
    IN  IF ~amount.ok THEN "amount_parse"
        ELSE IF amount.val > max_amount THEN "amount_max"
        ELSE "passed"

\* the waiting-time check that still refuses when the waiting time has just
\* elapsed
check_waiting_time_inclusive(stored, min_waiting_time, now) ==
    LET old_seconds == decode_from_slice(stored)
    IN  IF ~old_seconds.ok THEN "decode"
        ELSE IF old_seconds.val + min_waiting_time >= now THEN "waiting_time"
        ELSE "passed"

\* lines 157-168: the stored seconds decode and the waiting time is over
check_waiting_time(stored, min_waiting_time, now) ==
    LET old_seconds == decode_from_slice(stored)
    IN  IF ~old_seconds.ok THEN "decode"
        ELSE IF old_seconds.val + min_waiting_time > now THEN "waiting_time"
        ELSE "passed"

\* the proof check that accepts a settled claim whoever signed it
check_proof_any_signer(proof, lookup_ok, client, validator_address, master_account_address) ==
    LET id == B256FromStr(proof)
        found == IF id = None \/ ~lookup_ok THEN None
                 ELSE RemoteSettledClaim(Unwrap(id))
    IN  IF id = None THEN "proof_parse"
        ELSE IF found = None THEN "proof_lookup"
        ELSE
          LET proof_claim == Unwrap(found)
              settled_claim == proof_claim.data.tx
              signer == recover_address(settled_claim, proof_claim.data.signature)
              pay_message == serde_json_from_str_PayMessage(
                                 settled_claim.verified_claim.claim)
          IN  IF signer = None THEN "proof_signature"
              ELSE IF pay_message = None THEN "proof_pay_message"
              ELSE IF sender(Unwrap(pay_message)) = None THEN "proof_sender"
              ELSE IF Unwrap(sender(Unwrap(pay_message))) # master_account_address
              THEN "proof_master"
              ELSE IF AddressFromStr(Unwrap(pay_message).to) = None
              THEN "proof_receiver_parse"
              ELSE IF Unwrap(AddressFromStr(Unwrap(pay_message).to)) # client
              THEN "proof_receiver"
              ELSE "passed"

\* lines 169-218: the proof names a settled payment, signed by the validator,
\* from the master account to the client.  `lookup_ok`: the remote call of
\* get_settled_claim_by_id returned
check_proof(proof, lookup_ok, client, validator_address, master_account_address) ==
    LET id == B256FromStr(proof)
        found == IF id = None \/ ~lookup_ok THEN None
                 ELSE RemoteSettledClaim(Unwrap(id))
    IN  IF id = None THEN "proof_parse"
        ELSE IF found = None THEN "proof_lookup"
        ELSE
          LET proof_claim == Unwrap(found)
              settled_claim == proof_claim.data.tx
              signer == recover_address(settled_claim, proof_claim.data.signature)
              pay_message == serde_json_from_str_PayMessage(
                                 settled_claim.verified_claim.claim)
          IN  IF signer = None THEN "proof_signature"
              ELSE IF Unwrap(signer) # validator_address THEN "proof_validator"
              ELSE IF pay_message = None THEN "proof_pay_message"
              ELSE IF sender(Unwrap(pay_message)) = None THEN "proof_sender"
              ELSE IF Unwrap(sender(Unwrap(pay_message))) # master_account_address
              THEN "proof_master"
              ELSE IF AddressFromStr(Unwrap(pay_message).to) = None
              THEN "proof_receiver_parse"
              ELSE IF Unwrap(AddressFromStr(Unwrap(pay_message).to)) # client
              THEN "proof_receiver"
              ELSE "passed"

\* lines 124-219: the checks on one delivered item, first failure wins.
\* `get_ok`: db.get returned Ok; an Err takes the branch of a missing record.
verify(signed, get_ok, lookup_ok, now) ==
    LET stripped == check_and_strip_signature(signed)
    IN  IF stripped = None THEN Outcome("signature", "proof")
        ELSE
          LET submitted == Unwrap(stripped)
              v == check_verifier(submitted.to, address)
              a == check_amount(submitted.claim, from_vsl_tokens(settings.max_amount))
              client == sender(submitted)
          IN  IF v # "passed" THEN Outcome(v, "proof")
              ELSE IF client = None THEN Outcome("sender", "proof")
              ELSE IF a # "passed" THEN Outcome(a, "proof")
              ELSE IF get_ok /\ db[Unwrap(client)] # None
              THEN Outcome(check_waiting_time(Unwrap(db[Unwrap(client)]),
                                              settings.min_waiting_time, now),
                           "record")
              ELSE Outcome(check_proof(submitted.proof, lookup_ok, Unwrap(client),
                                       settings.validator_address,
                                       settings.master_account_address),
                           "proof")

\* a claim as a submitter builds it
SubmittedClaimOf(from, claim, nonce_s, to, proof) ==
    [type |-> "SubmittedClaim", claim |-> claim, proof |-> proof,
     nonce |-> nonce_s, to |-> to, from |-> AddressToString(from)]

\* Signed<T> made with the key of address a
SignedBy(a, msg) == [tx |-> msg, signature |-> SignatureBy(a, msg)]

\* the largest amount the verifier grants
MaxAmount == from_vsl_tokens(DefaultSettings.max_amount)

\* a claim that passes every check when its submitter has no record; it asks
\* for the largest amount
GoodClaim(c) ==
    SubmittedClaimOf(c, to_hex_str(MaxAmount), <<"0">>, <<AddressToString("A1")>>,
                     B256ToString(ProofId("paid_" \o c)))

SeveralVerifiers ==
    [GoodClaim("A2") EXCEPT !.to = <<AddressToString("A1"), AddressToString("A4")>>]

\* what submitted_claims_subscription.next() yields
Deliveries ==
    LET Items ==
            LET BadSignatureItems ==
                    LET \* a claim that fails every check
                        WorstClaim == SubmittedClaimOf("A2", <<"2">>, <<"0">>, <<>>, <<"z">>)
                    IN
                    { SignedBy("A3", GoodClaim("A2")),
                      [tx |-> GoodClaim("A2"), signature |-> SignatureBy("A2", GoodClaim("A3"))],
                      [tx |-> GoodClaim("A2"), signature |-> MalformedSignature],
                      [tx |-> WorstClaim, signature |-> MalformedSignature] }
                VerifierSetItems ==
                    { SignedBy("A2", [GoodClaim("A2") EXCEPT !.to = t]) :
                        t \in { <<>>, SeveralVerifiers.to, <<AddressToString("A4")>>, <<"zz">> } }
                AmountItems ==
                    { SignedBy("A2", [GoodClaim("A2") EXCEPT !.claim = c]) :
                        c \in { to_hex_str(MaxAmount + 1), LowerHexDigits(MaxAmount) } }
                \* claims of A3, each citing a proof that does not show a payment of the
                \* master account to A3
                ProofItems ==
                    { SignedBy("A3", [GoodClaim("A3") EXCEPT !.proof = p]) :
                        p \in { <<"z">> } \cup
                              { B256ToString(ProofId(tag)) :
                                  tag \in { "unknown", "bad_signature", "self_signed",
                                            "not_a_payment", "other_payer", "bad_receiver",
                                            "paid_A2" } } }
                        \cup { SignedBy("A3", [GoodClaim("A3") EXCEPT
                                                  !.proof = B256ToString(ProofId("unknown")),
                                                  !.to = <<ToLowerAddress(AddressToString("A1"))>>]) }
            IN
            { SignedBy(c, GoodClaim(c)) : c \in {"A2", "A6"} }
                \cup { SignedBy("A2", [GoodClaim("A2") EXCEPT !.proof = <<"z">>]) }
                \cup BadSignatureItems \cup VerifierSetItems \cup AmountItems
                \cup ProofItems
    IN
    { [kind |-> "closed"], [kind |-> "undecodable"] }
        \cup { [kind |-> "item", data |-> i] : i \in Items }

\* the verifier before main: the store holds an undecodable value for A6
VInit ==
    /\ session = "none"
    /\ key = "none"
    /\ address = "none"
    /\ nonce = 0
    /\ adopted = FALSE
    /\ remote_nonce = [a \in Accounts |-> MaxStartNonce]
    /\ sent = 0
    /\ wire = None
    /\ last = NoCall
    /\ vstate = "init"
    /\ db = [a \in Addresses |-> IF a = "A6" THEN Some(<<>>) ELSE None]
    /\ clock = 0
    /\ settings = DefaultSettings
    /\ vlast = NoIteration
    /\ settlements = <<>>
    /\ NoHelperCall
    /\ NoFaucet

\* lines 102-109: open the session without a nonce, then subscribe
VStart ==
    /\ vstate = "init"
    /\ \E query \in {"ok", "err"}, subscribed \in BOOLEAN :
          /\ query = "err" => subscribed
          /\ from_signer(settings.private_key, None, query)
          /\ vstate' = IF query = "ok" /\ subscribed THEN "running" ELSE "stopped"
    /\ UNCHANGED <<db, clock, settings, vlast, settlements, hvars, fvars>>

\* `get` is what db.get came to: "none" when it was not called, "found" for
\* Ok(Some(_)), "failed" for an Err although a value is stored, "missing"
\* when nothing is stored (Ok(None), or an Err)
Iterated(verdict, trace, item, get, stored, flushed) ==
    vlast' = [verdict |-> verdict, trace |-> trace, item |-> item,
              get |-> get, stored |-> stored, flushed |-> flushed]

\* get_settled_claim_by_id was called in an iteration with outcome o
LookedUp(o) ==
    LET AfterLookup == {ProofSteps[i] : i \in 2..Len(ProofSteps)}
    IN
    /\ o.path = "proof"
    /\ o.step = "passed" \/ o.step \in AfterLookup

\* the same part with a proof lookup that takes the next nonce
NoSettlement_counting(o) ==
    /\ IF LookedUp(o)
       THEN read_only_counting(CHOOSE r \in ReadOps : r.op = "get_settled_claim_by_id",
                               IF o.step = "proof_lookup" THEN "RpcError" ELSE "Ok")
       ELSE UNCHANGED svars
    /\ UNCHANGED settlements

\* the session's part of an iteration that does not call settle_claim
NoSettlement(o) ==
    /\ IF LookedUp(o)
       THEN read_only(CHOOSE r \in ReadOps : r.op = "get_settled_claim_by_id",
                      IF o.step = "proof_lookup" THEN "RpcError" ELSE "Ok")
       ELSE UNCHANGED svars
    /\ UNCHANGED settlements

\* the commit that keeps one timestamp for all submitters
commit_for_all(item, path, get, flush_ok, now, net) ==
    \E submitted \in {item.tx} :
        /\ db' = [a \in Addresses |-> Some(encode_to_vec(now))]
        /\ settle_claim(claim_id(submitted), TRUE, net)
        /\ settlements' = Append(settlements, claim_id(submitted))
        /\ Iterated("settle_claim", TraceTo(path, "settle_claim"),
                    Some(item), get, Some(now), Some(flush_ok))
        /\ UNCHANGED <<vstate, clock>>

\* the commit that calls settle_claim without storing the time
commit_unrecorded(item, path, get, flush_ok, now, net) ==
    \E submitted \in {item.tx} :
        /\ db' = db
        /\ settle_claim(claim_id(submitted), TRUE, net)
        /\ settlements' = Append(settlements, claim_id(submitted))
        /\ Iterated("settle_claim", TraceTo(path, "settle_claim"),
                    Some(item), get, Some(now), Some(flush_ok))
        /\ UNCHANGED <<vstate, clock>>

\* the commit that takes the stored time back when the settlement call fails
commit_rolled_back(item, path, get, flush_ok, now, net) ==
    \E submitted \in {item.tx} : \E client \in {Unwrap(sender(submitted))} :
        /\ db' = IF net = "answered"
                 THEN [db EXCEPT ![client] = Some(encode_to_vec(now))]
                 ELSE db
        /\ settle_claim(claim_id(submitted), TRUE, net)
        /\ settlements' = Append(settlements, claim_id(submitted))
        /\ Iterated("settle_claim", TraceTo(path, "settle_claim"),
                    Some(item), get, Some(now), Some(flush_ok))
        /\ UNCHANGED <<vstate, clock>>

\* lines 222-240: encode and store the time, flush, call settle_claim.  The
\* verifier's key is a well-formed local key: signing succeeds.
commit(item, path, get, flush_ok, now, net) ==
    \E submitted \in {item.tx} : \E client \in {Unwrap(sender(submitted))} :
        /\ db' = [db EXCEPT ![client] = Some(encode_to_vec(now))]
        /\ settle_claim(claim_id(submitted), TRUE, net)
        /\ settlements' = Append(settlements, claim_id(submitted))
        /\ Iterated("settle_claim", TraceTo(path, "settle_claim"),
                    Some(item), get, Some(now), Some(flush_ok))
        /\ UNCHANGED <<vstate, clock>>

\* the answers the verifier's settlement requests get
SettleOutcomes == {"rejected", "answered"}

\* the rest of an iteration in a loop that also stops when the timestamp
\* cannot be written
finish_stopping_on_insert(item, o, get) ==
    IF o.step = "decode"
    THEN /\ vstate' = "stopped"
         /\ Iterated("decode", TraceTo(o.path, "decode"), Some(item), get,
                     None, None)
         /\ UNCHANGED <<svars, db, clock, settlements>>
    ELSE IF o.step # "passed"
    THEN /\ Iterated(o.step, TraceTo(o.path, o.step), Some(item), get, None, None)
         /\ NoSettlement(o)
         /\ UNCHANGED <<vstate, db, clock>>
    ELSE \E failed \in {"encode", "db_insert", "none"} :
           IF failed # "none"
           THEN /\ Iterated(failed, TraceTo(o.path, failed), Some(item), get,
                            None, None)
                /\ NoSettlement(o)
                /\ vstate' = IF failed = "db_insert" THEN "stopped" ELSE vstate
                /\ UNCHANGED <<db, clock>>
           ELSE \E flush_ok \in BOOLEAN, net \in SettleOutcomes :
                  commit(item, o.path, get, flush_ok, clock, net)

\* the rest of an iteration whose checks came to outcome o
finish(item, o, get) ==
    IF o.step = "decode"
    THEN /\ vstate' = "stopped"
         /\ Iterated("decode", TraceTo(o.path, "decode"), Some(item), get,
                     None, None)
         /\ UNCHANGED <<svars, db, clock, settlements>>
    ELSE IF o.step # "passed"
    THEN /\ Iterated(o.step, TraceTo(o.path, o.step), Some(item), get, None, None)
         /\ NoSettlement(o)
         /\ UNCHANGED <<vstate, db, clock>>
    ELSE \E failed \in {"encode", "db_insert", "none"} :
           IF failed # "none"
           THEN /\ Iterated(failed, TraceTo(o.path, failed), Some(item), get,
                            None, None)
                /\ NoSettlement(o)
                /\ UNCHANGED <<vstate, db, clock>>
           ELSE \E flush_ok \in BOOLEAN, net \in SettleOutcomes :
                  commit(item, o.path, get, flush_ok, clock, net)

\* lines 111-241: one iteration of the loop, from next() to continue or panic
VStep ==
    LET \* db.get was reached in an iteration with outcome o
        ReachedDb(o) ==
            o.path = "record" \/ o.step = "passed" \/ o.step \in AfterDbGet
    IN
    /\ vstate = "running"
    /\ UNCHANGED <<settings, hvars, fvars>>
    /\ \E delivery \in Deliveries :
          IF delivery.kind = "closed"
          THEN /\ vstate' = "stopped"
               /\ Iterated("closed", <<>>, None, "none", None, None)
               /\ UNCHANGED <<svars, db, clock, settlements>>
          ELSE IF delivery.kind = "undecodable"
          THEN /\ Iterated("deserialize", <<"deserialize">>, None, "none", None, None)
               /\ UNCHANGED <<svars, vstate, db, clock, settlements>>
          ELSE \E o \in {verify(delivery.data, TRUE, TRUE, clock)} :
               \E reached \in {ReachedDb(o)} :
                 IF ~reached THEN finish(delivery.data, o, "none")
                 ELSE \E found \in {db[Unwrap(sender(delivery.data.tx))] # None} :
                      \E get_ok \in (IF found THEN BOOLEAN ELSE {TRUE}),
                         lookup_ok \in BOOLEAN :
                      \E get \in {IF ~found THEN "missing"
                                  ELSE IF get_ok THEN "found" ELSE "failed"} :
                        IF get_ok /\ lookup_ok THEN finish(delivery.data, o, get)
                        ELSE \E p \in {verify(delivery.data, get_ok, lookup_ok, clock)} :
                               /\ lookup_ok \/ LookedUp(p)
                               /\ finish(delivery.data, p, get)

\* a second passes
Tick ==
    /\ clock < MaxClock
    /\ clock' = clock + 1
    /\ UNCHANGED <<svars, vstate, db, settings, vlast, settlements, hvars, fvars>>

VNext ==
    \/ VStart
    \/ VStep
    \/ Tick

VerifierSpec == VInit /\ [][VNext]_vars

----------------------------------------------------------------------------
(* Properties of the account session *)

\* C1: in every mutating call of the session (submit_claim, settle_claim, pay,
\* create_asset, transfer_asset, set_account_state), when the RPC request
\* fails the nonce after the call equals the nonce before it, and when the
\* RPC request succeeds the nonce after the call is the nonce before it
\* plus exactly 1.
C1_NonceFollowsRpcOutcome ==
    [][ sent' # sent =>
            /\ last'.kind = "mutating"
            /\ last'.reply # Some("answered") => nonce' = nonce
            /\ last'.reply = Some("answered") => nonce' = nonce + 1 ]_vars

\* the second request of a session was answered and the nonce is one higher
\* than before that call
C1_Witness ==
    /\ sent = 2
    /\ wire # None
    /\ Unwrap(wire).ok
    /\ last.kind = "mutating"
    /\ last.reply = Some("answered")
    /\ nonce = last.nonce_before + 1

\* C2: a session that adopted the remote nonce and is the only user of its
\* account never holds a nonce greater than the number of requests the
\* remote has accepted for the account (the remote's next expected nonce).
C2_NonceNeverAheadOfRemote ==
    (session = "open" /\ adopted) => nonce <= remote_nonce[address]

\* a session that adopted the nonce and is level with the remote after an
\* answered request
C2_Witness ==
    /\ session = "open"
    /\ adopted
    /\ sent = 2
    /\ Unwrap(wire).ok
    /\ nonce = remote_nonce[address]
    /\ nonce > 0

\* C3: every mutating request carries the local nonce at the time it is
\* built and the session's address as sender; two requests answered one
\* after the other carry consecutive nonces, and the request after a failed
\* one carries the nonce of the failed one.
C3_RequestsCarrySessionNonce ==
    [][ LET C3_Carries(m, n, a) ==
                /\ m.nonce = U64ToString(n)
                /\ m.from = AddressToString(a)
            C3_Follows(before, m) ==
                IF before.ok
                THEN \E n \in 0..(MaxStartNonce + MaxSent) :
                         /\ before.nonce = U64ToString(n)
                         /\ m.nonce = U64ToString(n + 1)
                ELSE m.nonce = before.nonce
        IN
        sent' # sent =>
            /\ sent' = sent + 1
            /\ wire' # None
            /\ C3_Carries(Unwrap(wire'), nonce, address)
            /\ wire # None => C3_Follows(Unwrap(wire), Unwrap(wire')) ]_vars

\* the second request of a session, answered, numbered one below the nonce
\* the session now holds
C3_Witness ==
    /\ sent = 2
    /\ wire # None
    /\ Unwrap(wire).ok
    /\ Unwrap(wire).nonce = U64ToString(1)
    /\ nonce = 2

\* C4: the nonce of an open session changes only when one of the session's
\* own mutating calls got its answer.
C4_NonceChangedOnlyBySuccess ==
    [][ (session = "open" /\ nonce' # nonce) =>
            (last'.kind = "mutating" /\ last'.reply = Some("answered")) ]_vars

\* C5: from_signer without a starting nonce asks the remote for the account's
\* nonce; the new session's nonce is the value the remote returned, and when
\* the query fails no session is created.
C5_OpenAdoptsRemoteNonce ==
    (last.op = "from_signer" /\ last.arg = None) =>
        /\ last.requests = <<"vsl_getAccountNonce">>
        /\ last.result = "Ok" =>
              /\ session = "open"
              /\ Some(nonce) = last.reply
              /\ nonce = remote_nonce[address]
        /\ last.result # "Ok" => session = "none"

\* a session just opened on an account whose remote nonce is not 0
C5_Witness ==
    /\ last.op = "from_signer"
    /\ last.arg = None
    /\ last.result = "Ok"
    /\ session = "open"
    /\ nonce = 1

\* C6: a read-only call leaves nonce, address and key as they were, whether
\* the remote call succeeds, fails or returns an answer that does not parse.
C6_ReadOnlyLeavesSession ==
    [][ last'.kind = "read" =>
            /\ nonce' = nonce
            /\ address' = address
            /\ key' = key ]_vars

\* a read whose answer did not parse, made by a session that has sent requests
C6_Witness ==
    /\ last.kind = "read"
    /\ last.result = "ParseError"
    /\ sent > 0
    /\ nonce > 0

\* C7: a mutating call sends exactly one request when signing succeeds and
\* none when it fails, and a failed request is not sent again by the session.
C7_OneRequestPerCall ==
    [][ last'.kind = "mutating" =>
            /\ Len(last'.requests) = IF last'.result = "SignError" THEN 0 ELSE 1
            /\ sent' = sent + Len(last'.requests) ]_vars

\* a call whose request failed: one request sent, none repeated
C7_Witness ==
    /\ last.kind = "mutating"
    /\ last.result = "RpcError"
    /\ Len(last.requests) = 1
    /\ sent = 1

----------------------------------------------------------------------------
(* Properties of the faucet verifier *)

\* C8: whatever the subscription delivers, the same signed claim more than
\* once included, the verifier issues at most one settlement call for each
\* claim id.
C8_OneSettlementPerClaimId ==
    \A i, j \in 1..Len(settlements) :
        settlements[i] = settlements[j] => i = j

\* the signature of a delivered item recovers to the address its `from` names
SignerIsSender(item) ==
    /\ item.signature.wellformed
    /\ item.signature.over = item.tx
    /\ AddressToString(item.signature.by) = item.tx.from

\* C9: for a delivered claim whose signature does not recover to the address
\* in its `from` field the verifier stores no timestamp and calls no
\* settlement, and the signature check is the first check on the claim: the
\* iteration ends there, whatever else is wrong with the claim.
C9_BadSignatureNeverAccepted ==
    [][ LET \* the iteration that leads to the next state worked on a claim whose
            \* signature does not recover to its `from`
            DeliveredBadSignature ==
                /\ vlast'.item # None
                /\ ~SignerIsSender(Unwrap(vlast'.item))
        IN
        DeliveredBadSignature =>
            /\ vlast'.verdict = "signature"
            /\ vlast'.trace = <<"deserialize", "signature">>
            /\ db' = db
            /\ settlements' = settlements
            /\ sent' = sent ]_vars

\* a claim good in everything but its signer is refused by a verifier that
\* has settled a claim before
C9_Witness ==
    /\ vlast.item = Some(SignedBy("A3", GoodClaim("A2")))
    /\ vlast.verdict = "signature"
    /\ Len(settlements) = 1
    /\ db["A2"] # None

\* the `to` list of a delivered item has exactly one entry and it is the
\* address of the verifier's account
NamesOnlyVerifier(item) ==
    /\ Len(item.tx.to) = 1
    /\ AddressFromStr(item.tx.to[1]) = Some(address)

\* C10: the verifier calls settlement for a claim only if the claim's `to`
\* list has exactly one entry and that entry is the verifier's own address;
\* an empty list, several verifiers (the verifier among them or not) and
\* another address are rejected.
C10_SettlesOnlyAsSoleVerifier ==
    [][ LET \* the iteration that leads to the next state worked on a claim whose `to`
            \* is anything else
            DeliveredOtherVerifiers ==
                /\ vlast'.item # None
                /\ ~NamesOnlyVerifier(Unwrap(vlast'.item))
        IN
        DeliveredOtherVerifiers =>
            /\ vlast'.verdict \in {"signature", "verifier_count",
                                   "verifier_parse", "verifier_is_self"}
            /\ db' = db
            /\ settlements' = settlements
            /\ sent' = sent ]_vars

\* a claim naming the verifier and one more is refused by a verifier that has
\* settled a claim before
C10_Witness ==
    /\ vlast.item = Some(SignedBy("A2", SeveralVerifiers))
    /\ vlast.verdict = "verifier_count"
    /\ Len(settlements) = 1
    /\ db["A2"] # None

\* the `claim` of a delivered item parses as a hex amount that is not above
\* the maximum
AmountWithinMax(item) ==
    /\ from_hex_str(item.tx.claim).ok
    /\ from_hex_str(item.tx.claim).val <= MaxAmount

\* C11: the verifier calls settlement for a claim only if its `claim` field
\* parses as a hex amount that is not greater than the configured maximum:
\* an unparsable or larger amount is rejected, and an amount equal to the
\* maximum is not rejected by the amount check.
C11_SettlesOnlyWithinMaxAmount ==
    [][ vlast'.item # None =>
          /\ ~( /\ vlast'.verdict \in {"signature", "verifier_count",
                                       "verifier_parse", "verifier_is_self",
                                       "sender", "amount_parse", "amount_max"}
                /\ db' = db
                /\ settlements' = settlements
                /\ sent' = sent ) =>
                AmountWithinMax(Unwrap(vlast'.item))
          /\ vlast'.verdict \in {"amount_parse", "amount_max"} =>
                from_hex_str(Unwrap(vlast'.item).tx.claim) # Ok(MaxAmount) ]_vars

\* a claim for one unit more than the maximum is refused by a verifier that
\* has settled a claim for exactly the maximum
C11_Witness ==
    /\ vlast.item = Some(SignedBy("A2", [GoodClaim("A2") EXCEPT
                                            !.claim = to_hex_str(MaxAmount + 1)]))
    /\ vlast.verdict = "amount_max"
    /\ Len(settlements) = 1
    /\ settlements[1] = claim_id(GoodClaim("A2"))

\* the seconds stored for the submitter of a delivered item
StoredFor(item) ==
    decode_from_slice(Unwrap(db[Unwrap(sender(item.tx))]))

ProofShowsPayment(item) ==
    /\ B256FromStr(item.tx.proof) # None
    /\ RemoteSettledClaim(Unwrap(B256FromStr(item.tx.proof))) # None
    /\ LET held == Unwrap(RemoteSettledClaim(Unwrap(B256FromStr(item.tx.proof)))).data
           content == held.tx.verified_claim.claim
       IN  /\ held.signature.wellformed
           /\ held.signature.over = held.tx
           /\ held.signature.by = settings.validator_address
           /\ content.json = "PayMessage"
           /\ AddressFromStr(content.from) = Some(settings.master_account_address)
           /\ AddressFromStr(content.to) = sender(item.tx)

\* C13: for a submitter with no stored record the verifier calls settlement
\* only if the claim's proof parses as a claim id, the remote returns a
\* settled claim for it, that claim's signature recovers to the trusted
\* validator, its content decodes as a payment, the payer is the master
\* account and the receiver is the submitter; if any of these fails the
\* claim is rejected in the proof branch.
C13_SettlesOnlyWithProofOfPayment ==
    [][ (vlast'.item # None /\ vlast'.get = "missing"
            /\ ~ProofShowsPayment(Unwrap(vlast'.item))) =>
          /\ vlast'.verdict \in AfterDbGet
          /\ db' = db
          /\ settlements' = settlements
          /\ sent' = sent ]_vars

\* a claim citing a payment of the master account to its submitter that the
\* submitter signed itself is refused, by a verifier that has settled a claim
C13_Witness ==
    /\ vlast.item = Some(SignedBy("A3", [GoodClaim("A3") EXCEPT
                             !.proof = B256ToString(ProofId("self_signed"))]))
    /\ vlast.get = "missing"
    /\ vlast.verdict = "proof_validator"
    /\ Len(settlements) = 1

\* step a comes before step b in the steps an iteration went through
StepBefore(trace, a, b) ==
    \E i \in 1..Len(trace) : \E j \in 1..Len(trace) :
        i < j /\ trace[i] = a /\ trace[j] = b

\* C14: a settlement call for a claim of submitter s is preceded, in the
\* iteration that processes that claim, by a successful write of the current
\* time as the last-accepted timestamp of s; when the write fails, the
\* iteration issues no settlement call.
C14_TimestampWrittenBeforeSettlement ==
    [][ /\ (sent' # sent \/ settlements' # settlements) =>
             /\ vlast'.item # None
             /\ StepBefore(vlast'.trace, "db_insert", "settle_claim")
             /\ vlast'.stored = Some(clock)
             /\ db'[Unwrap(sender(Unwrap(vlast'.item).tx))]
                    = Some(encode_to_vec(clock))
        /\ vlast'.verdict = "db_insert" =>
             /\ db' = db
             /\ sent' = sent
             /\ settlements' = settlements ]_vars

\* a claim whose timestamp write failed, at a verifier that has settled an
\* earlier claim of the same submitter and still holds that claim's timestamp
C14_Witness ==
    /\ vlast.verdict = "db_insert"
    /\ vlast.item = Some(SignedBy("A2", GoodClaim("A2")))
    /\ Len(settlements) = 1
    /\ clock > 0
    /\ db["A2"] = Some(encode_to_vec(0))

C16_StoreFailureRejects ==
    [][ LET \* a read, a write or a flush of the store failed in the last iteration
            StoreFailed(it) ==
                \/ it.get = "failed"
                \/ it.verdict = "db_insert"
                \/ it.flushed = Some(FALSE)
        IN
        (vlast'.item # None /\ StoreFailed(vlast')) =>
          /\ sent' = sent
          /\ settlements' = settlements
          /\ vstate' = "running" ]_vars

C18_ValidFirstClaimIsSettled ==
    [][ LET \* the steps at which an iteration gives a claim up for a failure of the
            \* proof lookup request or of the store, not for a defect of the claim
            EnvironmentFailures == {"proof_lookup", "encode", "db_insert"}
        IN
        ( /\ clock' = clock
          /\ vlast'.item # None
          /\ vlast'.get = "missing"
          /\ vlast'.verdict \notin EnvironmentFailures
          /\ ProofShowsPayment(Unwrap(vlast'.item))
          /\ SignerIsSender(Unwrap(vlast'.item))
          /\ NamesOnlyVerifier(Unwrap(vlast'.item))
          /\ AmountWithinMax(Unwrap(vlast'.item)) ) =>
          LET submitted == Unwrap(vlast'.item).tx
              s == Unwrap(AddressFromStr(submitted.from))
              id == claim_id_hash(s, submitted.nonce, submitted.claim)
          IN  /\ vlast'.verdict = "settle_claim"
              /\ StepBefore(vlast'.trace, "db_insert", "settle_claim")
              /\ db' = [db EXCEPT ![s] = Some(encode_to_vec(clock))]
              /\ sent' = sent + 1
              /\ wire' # None
              /\ Unwrap(wire').from = AddressToString(address)
              /\ Unwrap(wire').target = B256ToString(id)
              /\ settlements' = Append(settlements, id) ]_vars

\* the first claim of submitter A2 was accepted and its settlement answered
C18_Witness ==
    /\ vlast.item = Some(SignedBy("A2", GoodClaim("A2")))
    /\ vlast.get = "missing"
    /\ vlast.verdict = "settle_claim"
    /\ sent = 1
    /\ wire # None
    /\ Unwrap(wire).ok
    /\ Unwrap(wire).target = B256ToString(claim_id_hash("A2", <<"0">>, to_hex_str(MaxAmount)))
    /\ db["A2"] = Some(encode_to_vec(clock))

----------------------------------------------------------------------------
(* The signature helpers applied to messages of every type: helpers.rs *)

\* the accounts that messages name as their sender or owner
Senders == {"A1", "A2", "A3"}

\* rpc_messages.rs: a VerifiedClaim; it has an owner and no sender
VerifiedClaimOf(owner) ==
    [type |-> "VerifiedClaim",
     claim |-> PayMessageJson(AddressToString("A4"), AddressToString(owner)),
     claim_owner |-> AddressToString(owner)]

\* the record of a helper call: its name, its argument, what it returned
Called(op, of, value) ==
    returned' = Some([op |-> op, of |-> of, value |-> value])

HInit ==
    LET \* the messages a caller may hold: three types with a sender, two without
        Payloads ==
            {GoodClaim(a) : a \in Senders}
            \cup {[type |-> "PayMessage", from |-> AddressToString(a),
                   nonce |-> U64ToString(0), to |-> AddressToString("A4"),
                   amount |-> to_hex_str(1)] : a \in Senders}
            \cup {[type |-> "SettleClaimMessage", from |-> AddressToString(a),
                   nonce |-> U64ToString(0),
                   target_claim_id |-> B256ToString(claim_id(GoodClaim("A3")))]
                    : a \in {"A1", "A2"}}
            \cup {VerifiedClaimOf(a) : a \in {"A1", "A3"}}
            \cup {[type |-> "SettledVerifiedClaim",
                   verified_claim |-> VerifiedClaimOf(a),
                   verifiers |-> <<AddressToString("A1")>>] : a \in {"A1", "A3"}}
    IN
    /\ session = "none"
    /\ key = "none"
    /\ address = "none"
    /\ nonce = 0
    /\ adopted = FALSE
    /\ remote_nonce = [a \in Accounts |-> 0]
    /\ sent = 0
    /\ wire = None
    /\ last = NoCall
    /\ vstate = "init"
    /\ db = [a \in Addresses |-> None]
    /\ clock = 0
    /\ settings = DefaultSettings
    /\ vlast = NoIteration
    /\ settlements = <<>>
    /\ payload \in {Some(p) : p \in Payloads}
    /\ signed_message = None
    /\ returned = None
    /\ NoFaucet

\* helpers.rs 32-38: the caller signs its message with a key; sign_hash_sync
\* may fail
IntoSigned ==
    /\ \E signer \in Keys, sign_ok \in BOOLEAN :
          IF sign_ok
          THEN /\ signed_message' = Some(into_signed(Unwrap(payload), signer))
               /\ Called("into_signed", <<Unwrap(payload), signer>>,
                         Ok(into_signed(Unwrap(payload), signer)))
          ELSE /\ Called("into_signed", <<Unwrap(payload), signer>>,
                         Err("SignError"))
               /\ UNCHANGED signed_message
    /\ UNCHANGED <<svars, vvars, payload, fvars>>

\* a signed message arrives from elsewhere, with any signature
Receive ==
    LET \* the signatures that may come with message p from elsewhere: by each
        \* account over p, by an account over another message, and a malformed one
        ReceivedSignatures(p) ==
            LET \* a message other than p, of the same type where there is one
                OtherThan ==
                    IF p.type = "SubmittedClaim" THEN [p EXCEPT !.nonce = U64ToString(1)]
                    ELSE IF p.type \in {"PayMessage", "SettleClaimMessage"}
                    THEN [p EXCEPT !.nonce = U64ToString(1)]
                    ELSE GoodClaim("A1")
            IN
            {SignatureBy(a, p) : a \in Senders}
            \cup {SignatureBy(a, OtherThan) : a \in {"A1", "A3"}}
            \cup {MalformedSignature}
    IN
    /\ \E sig \in ReceivedSignatures(Unwrap(payload)) :
          signed_message' = Some([tx |-> Unwrap(payload), signature |-> sig])
    /\ UNCHANGED <<svars, vvars, payload, returned, fvars>>

\* helpers.rs 40-44
RecoverAddress ==
    /\ signed_message # None
    /\ Called("recover_address", Unwrap(signed_message),
              recover_address(Unwrap(signed_message).tx, Unwrap(signed_message).signature))
    /\ UNCHANGED <<svars, vvars, payload, signed_message, fvars>>

\* helpers.rs 46-56
Check ==
    /\ signed_message # None
    /\ Called("check", Unwrap(signed_message), check(Unwrap(signed_message)))
    /\ UNCHANGED <<svars, vvars, payload, signed_message, fvars>>

\* helpers.rs 58-63
CheckAndStripSignature ==
    /\ signed_message # None
    /\ Called("check_and_strip_signature", Unwrap(signed_message),
              check_and_strip_signature(Unwrap(signed_message)))
    /\ UNCHANGED <<svars, vvars, payload, signed_message, fvars>>

HNext ==
    \/ IntoSigned
    \/ Receive
    \/ RecoverAddress
    \/ Check
    \/ CheckAndStripSignature

HelperSpec == HInit /\ [][HNext]_vars

----------------------------------------------------------------------------
(* Properties of the signature helpers *)

\* the last helper call was op, applied to what into_signed makes of the
\* caller's message with key k
AppliedToSigned(op, k) ==
    /\ returned # None
    /\ Unwrap(returned).op = op
    /\ Unwrap(returned).of = into_signed(Unwrap(payload), k)

\* C19: for every key and every message whose declared sender is the
\* address of that key, check(into_signed(message, key)) is true; and for
\* every key and message, the address recovered from what into_signed made
\* is the address of the key.  A message signed with a key that is not its
\* declared sender's does not pass check.
C19_SignedBySenderPassesCheck ==
    \A k \in Keys :
        /\ AppliedToSigned("recover_address", k) =>
               Unwrap(returned).value = Some(AddressOfKey(k))
        /\ AppliedToSigned("check", k) =>
               (Unwrap(returned).value
                    <=> sender(Unwrap(payload)) = Some(AddressOfKey(k)))

\* C19 as stated: for every key and every message with a declared sender,
\* check(into_signed(message, key)) is true and the recovered address is
\* the address of the key.
C19_AnySignedPayloadPassesCheck ==
    \A k \in Keys :
        /\ AppliedToSigned("recover_address", k) =>
               Unwrap(returned).value = Some(AddressOfKey(k))
        /\ (AppliedToSigned("check", k) /\ sender(Unwrap(payload)) # None) =>
               Unwrap(returned).value

\* a payment of account A2 signed with the key of A2 passed check
C19_Witness ==
    /\ payload # None
    /\ Unwrap(payload).type = "PayMessage"
    /\ sender(Unwrap(payload)) = Some(AddressOfKey("k2"))
    /\ AppliedToSigned("check", "k2")
    /\ Unwrap(returned).value

\* C20: check_and_strip_signature(signed) returns the message of signed,
\* unchanged, exactly when the address recovered from the signature over the
\* message equals the address the message's sender() returns; when recovery
\* fails, the message has no sender or the two differ, it returns None.  For
\* a VerifiedClaim or a SettledVerifiedClaim it returns None whatever the
\* signature.
C20_StripsExactlyWhenSignerIsSender ==
    LET \* the message types for which rpc_messages.rs leaves sender() at its default
        TypesWithoutSender == {"VerifiedClaim", "SettledVerifiedClaim"}
    IN
    (returned # None /\ Unwrap(returned).op = "check_and_strip_signature") =>
        LET arg == Unwrap(returned).of
            value == Unwrap(returned).value
            recovered == recover_address(arg.tx, arg.signature)
        IN  /\ value = IF /\ recovered # None
                          /\ sender(arg.tx) # None
                          /\ recovered = sender(arg.tx)
                       THEN Some(arg.tx)
                       ELSE None
            /\ arg.tx.type \in TypesWithoutSender => value = None

\* a VerifiedClaim signed with the key of its owner was not returned
C20_Witness ==
    /\ payload = Some(VerifiedClaimOf("A1"))
    /\ AppliedToSigned("check_and_strip_signature", "k1")
    /\ Unwrap(returned).value = None

----------------------------------------------------------------------------
(* The claim id as a function of owner, nonce and claim: rpc_messages.rs *)

\* owner, nonce string and claim string of a claim; the strings are any
\* text, numeric or not, empty or not
IdInputs ==
    [owner : {"A1", "A2"},
     nonce : {<<>>, <<"0">>, <<"x">>, <<"1">>, <<"1", "0">>},
     claim : {<<>>, <<"0">>, <<"0", "x", "1">>}]

IdInit ==
    /\ session = "none"
    /\ key = "none"
    /\ address = "none"
    /\ nonce = 0
    /\ adopted = FALSE
    /\ remote_nonce = [a \in Accounts |-> 0]
    /\ sent = 0
    /\ wire = None
    /\ last = NoCall
    /\ vstate = "init"
    /\ db \in {[a \in Addresses |-> None],
               [a \in Addresses |-> IF a = "A2" THEN Some(encode_to_vec(0))
                                    ELSE None]}
    /\ clock = 0
    /\ settings = DefaultSettings
    /\ vlast = NoIteration
    /\ settlements = <<>>
    /\ payload \in {Some(i) : i \in IdInputs}
    /\ signed_message = None
    /\ returned = None
    /\ NoFaucet

\* the caller turns to another claim
Take ==
    /\ payload' \in {Some(i) : i \in IdInputs}
    /\ UNCHANGED <<svars, vvars, signed_message, returned, fvars>>

\* rpc_messages.rs 482-488
ClaimIdHash ==
    /\ Called("claim_id_hash", Unwrap(payload),
              claim_id_hash(Unwrap(payload).owner, Unwrap(payload).nonce,
                            Unwrap(payload).claim))
    /\ UNCHANGED <<svars, vvars, payload, signed_message, fvars>>

\* rpc_messages.rs 478-480, 491-503: the id of a SubmittedClaim with these
\* fields
ClaimId ==
    /\ Called("claim_id", Unwrap(payload),
              claim_id(SubmittedClaimOf(Unwrap(payload).owner,
                                        Unwrap(payload).claim,
                                        Unwrap(payload).nonce, <<>>, <<>>)))
    /\ UNCHANGED <<svars, vvars, payload, signed_message, fvars>>

\* between two computations of an id a session may be opened and its nonce
\* may move, and time passes
IdNext ==
    \/ Take
    \/ ClaimIdHash
    \/ ClaimId
    \/ Open
    \/ IncNonceCall
    \/ Tick

IdSpec == IdInit /\ [][IdNext]_vars

C22_SessionAndVerifierAgreeOnClaimId ==
    [][ (sent' = sent + 1 /\ last'.op = "submit_claim" /\ last'.arg # None) =>
          claim_id(Unwrap(last'.arg))
            = RpcWrapper_claim_id(Unwrap(last'.arg).claim) ]_vars

\* a claim submitted and answered at session nonce 1 by account A2
C22_Witness ==
    /\ last.op = "submit_claim"
    /\ last.result = "Ok"
    /\ last.nonce_before = 1
    /\ address = "A2"
    /\ last.arg # None
    /\ claim_id(Unwrap(last.arg))
         = claim_id_hash("A2", <<"1">>, Unwrap(last.arg).claim)

----------------------------------------------------------------------------
(* Amount: lib.rs.  An Amount is a u128; the model keeps its arithmetic at *)
(* AmountBits bits.                                                        *)

\* largest value of the integer type under Amount
AmountMax == 2 ^ AmountBits - 1

\* u128::checked_mul and u128::checked_pow
u128_checked_mul(a, b) == IF a * b > AmountMax THEN None ELSE Some(a * b)

u128_checked_pow(a, e) == IF a ^ e > AmountMax THEN None ELSE Some(a ^ e)

\* Option::expect: the value, or a panic
expect(o) == IF o = None THEN Err("panic") ELSE Ok(Unwrap(o))

\* derive::Add for Amount: + on u128.  With overflow checks (the debug
\* profile) a sum that does not fit panics, without them (the release
\* profile) it wraps.
add(a, rhs, overflow_checks) ==
    IF a + rhs <= AmountMax THEN Ok(a + rhs)
    ELSE IF overflow_checks THEN Err("panic")
    ELSE Ok((a + rhs) % (AmountMax + 1))

\* derive::Sub for Amount: - on u128
sub(a, rhs, overflow_checks) ==
    IF a >= rhs THEN Ok(a - rhs)
    ELSE IF overflow_checks THEN Err("panic")
    ELSE Ok((a - rhs) % (AmountMax + 1))

\* impl Mul for Amount: * on u128
mul(a, rhs, overflow_checks) ==
    IF a * rhs <= AmountMax THEN Ok(a * rhs)
    ELSE IF overflow_checks THEN Err("panic")
    ELSE Ok((a * rhs) % (AmountMax + 1))

\* impl Mul<u128> for Amount
mul_u128(a, rhs, overflow_checks) ==
    IF a * rhs <= AmountMax THEN Ok(a * rhs)
    ELSE IF overflow_checks THEN Err("panic")
    ELSE Ok((a * rhs) % (AmountMax + 1))

\* Amount::from_tokens
from_tokens(tokens, decimals) ==
    LET one_token == expect(u128_checked_pow(10, decimals))
    IN  IF ~one_token.ok THEN one_token
        ELSE expect(u128_checked_mul(tokens, one_token.val))

\* Amount::checked_sub and Amount::checked_add
checked_sub(a, rhs) ==
    LET \* u128::checked_sub
        u128_checked_sub(x, y) == IF x < y THEN None ELSE Some(x - y)
    IN
    u128_checked_sub(a, rhs)

checked_add(a, rhs) ==
    LET \* u128::checked_add
        u128_checked_add(x, y) == IF x + y > AmountMax THEN None ELSE Some(x + y)
    IN
    u128_checked_add(a, rhs)

RECURSIVE DecimalDigitsValue(_)
DecimalDigitsValue(d) ==
    IF Len(d) = 0 THEN 0
    ELSE 10 * DecimalDigitsValue(SubSeq(d, 1, Len(d) - 1))
         + HexValue(d[Len(d)])

IsDecimalChar(c) == \E i \in 1..Len(DigitChars) : DigitChars[i] = c

\* str::split(c): the pieces between the occurrences of c, at least one
RECURSIVE split(_, _)
split(s, c) ==
    IF \A i \in 1..Len(s) : s[i] # c THEN <<s>>
    ELSE LET k == CHOOSE i \in 1..Len(s) :
                      s[i] = c /\ \A j \in 1..(i - 1) : s[j] # c
         IN  <<SubSeq(s, 1, k - 1)>> \o split(SubSeq(s, k + 1, Len(s)), c)

\* n copies of the character 0
Zeros(n) == [i \in 1..n |-> "0"]

\* Amount::to_str_with_decimals
RECURSIVE StripTrailingZeros(_, _)
StripTrailingZeros(subunits, decimals) ==
    IF subunits % 10 = 0
    THEN StripTrailingZeros(subunits \div 10, decimals - 1)
    ELSE [subunits |-> subunits, decimals |-> decimals]

to_str_with_decimals(a, decimals) ==
    LET one_token == expect(u128_checked_pow(10, decimals))
    IN  IF ~one_token.ok THEN one_token
        ELSE LET units == a \div one_token.val
                 subunits == a % one_token.val
             IN  IF subunits = 0 THEN Ok(U64ToString(units))
                 ELSE LET r == StripTrailingZeros(subunits, decimals)
                          digits == U64ToString(r.subunits)
                      IN  Ok(U64ToString(units) \o <<".">>
                             \o Zeros(IF Len(digits) < r.decimals
                                      THEN r.decimals - Len(digits) ELSE 0)
                             \o digits)

\* Amount::from_str_with_decimals
from_str_with_decimals(s, decimals) ==
    LET \* u128::from_str_radix(s, 10): an optional + sign, then one or more
        \* decimal digits, and a value that fits
        from_str_radix_10(src) ==
            LET digits == IF Len(src) > 0 /\ src[1] = "+" THEN Tail(src) ELSE src
            IN  IF Len(digits) = 0 THEN Err("ParseInt")
                ELSE IF \E i \in 1..Len(digits) : ~IsDecimalChar(digits[i])
                     THEN Err("ParseInt")
                ELSE IF DecimalDigitsValue(digits) > AmountMax THEN Err("ParseInt")
                ELSE Ok(DecimalDigitsValue(digits))
    IN
    LET parts == split(s, ".")
        units == parts[1]
        subunits == IF Len(parts) >= 2 THEN parts[2] ELSE <<"0">>
    IN  IF Len(parts) >= 3 THEN Err("NotDecimal")
        ELSE IF Len(subunits) > decimals THEN Err("TooManyDecimals")
        ELSE from_str_radix_10(units \o subunits
                               \o Zeros(decimals - Len(subunits)))

\* every string of at most n characters of alphabet
TextsUpTo(n, alphabet) == UNION {[1..k -> alphabet] : k \in 0..n}

AInit ==
    LET \* what a caller may hold: a text to parse as a hex amount, a text to parse
        \* as a decimal amount with a decimals count, an amount with a decimals
        \* count, or two amounts
        AmountInputs ==
            {[kind |-> "hex", s |-> t]
                : t \in TextsUpTo(2, {"0", "x", "1", "a", "F", "+", "g"})
                     \cup {<<"0", "x">> \o u
                             : u \in TextsUpTo(3, {"0", "x", "1", "a", "F", "+", "g"})}}
            \cup {[kind |-> "decimal", s |-> t, decimals |-> d]
                     : t \in TextsUpTo(4, {"0", "1", "2", ".", "+", "x"}),
                       d \in 0..MaxDecimals}
            \cup {[kind |-> "amount", a |-> n, decimals |-> d]
                     : n \in 0..AmountMax, d \in 0..MaxDecimals}
            \cup {[kind |-> "pair", a |-> n, rhs |-> m]
                     : n \in {0, 1, 2, 3, AmountMax \div 2, AmountMax \div 2 + 1,
                              AmountMax - 1, AmountMax},
                       m \in {0, 1, 2, 3, AmountMax \div 2, AmountMax \div 2 + 1,
                              AmountMax - 1, AmountMax}}
    IN
    /\ session = "none"
    /\ key = "none"
    /\ address = "none"
    /\ nonce = 0
    /\ adopted = FALSE
    /\ remote_nonce = [a \in Accounts |-> 0]
    /\ sent = 0
    /\ wire = None
    /\ last = NoCall
    /\ vstate = "init"
    /\ db = [a \in Addresses |-> None]
    /\ clock = 0
    /\ settings = DefaultSettings
    /\ vlast = NoIteration
    /\ settlements = <<>>
    /\ payload \in {Some(i) : i \in AmountInputs}
    /\ signed_message = None
    /\ returned = None
    /\ NoFaucet

\* a call of a function of Amount on what the caller holds
AmountCall(op, value) ==
    /\ Called(op, Unwrap(payload), value)
    /\ UNCHANGED <<svars, vvars, payload, signed_message, fvars>>

FromHexStr ==
    /\ Unwrap(payload).kind = "hex"
    /\ AmountCall("from_hex_str", from_hex_str(Unwrap(payload).s))

ToHexStr ==
    /\ Unwrap(payload).kind = "amount"
    /\ AmountCall("to_hex_str", to_hex_str(Unwrap(payload).a))

\* formatting an amount as hex and parsing the text
HexRoundTrip ==
    /\ Unwrap(payload).kind = "amount"
    /\ AmountCall("hex_round_trip",
                  from_hex_str(to_hex_str(Unwrap(payload).a)))

FromStrWithDecimals ==
    /\ Unwrap(payload).kind = "decimal"
    /\ AmountCall("from_str_with_decimals",
                  from_str_with_decimals(Unwrap(payload).s,
                                         Unwrap(payload).decimals))

ToStrWithDecimals ==
    /\ Unwrap(payload).kind = "amount"
    /\ AmountCall("to_str_with_decimals",
                  to_str_with_decimals(Unwrap(payload).a,
                                       Unwrap(payload).decimals))

\* formatting an amount with a decimals count and parsing the text with
\* the same count
DecimalRoundTrip ==
    /\ Unwrap(payload).kind = "amount"
    /\ \E text \in {to_str_with_decimals(Unwrap(payload).a,
                                         Unwrap(payload).decimals)} :
          AmountCall("decimal_round_trip",
                     IF ~text.ok THEN text
                     ELSE from_str_with_decimals(text.val,
                                                 Unwrap(payload).decimals))

FromTokens ==
    /\ Unwrap(payload).kind = "amount"
    /\ AmountCall("from_tokens",
                  from_tokens(Unwrap(payload).a, Unwrap(payload).decimals))

\* lib.rs 73-78: checked_mul(ONE_VSL_TOKEN).expect(..)
FromVslTokens ==
    /\ Unwrap(payload).kind = "amount"
    /\ AmountCall("from_vsl_tokens",
                  IF u128_checked_mul(Unwrap(payload).a, TokenUnit) = None
                  THEN Err("panic")
                  ELSE Ok(from_vsl_tokens(Unwrap(payload).a)))

CheckedAdd ==
    /\ Unwrap(payload).kind = "pair"
    /\ AmountCall("checked_add",
                  checked_add(Unwrap(payload).a, Unwrap(payload).rhs))

CheckedSub ==
    /\ Unwrap(payload).kind = "pair"
    /\ AmountCall("checked_sub",
                  checked_sub(Unwrap(payload).a, Unwrap(payload).rhs))

\* the operators, in a build with or without overflow checks
Add ==
    /\ Unwrap(payload).kind = "pair"
    /\ \E overflow_checks \in BOOLEAN :
          AmountCall("add", add(Unwrap(payload).a, Unwrap(payload).rhs,
                                overflow_checks))

Sub ==
    /\ Unwrap(payload).kind = "pair"
    /\ \E overflow_checks \in BOOLEAN :
          AmountCall("sub", sub(Unwrap(payload).a, Unwrap(payload).rhs,
                                overflow_checks))

Mul ==
    /\ Unwrap(payload).kind = "pair"
    /\ \E overflow_checks \in BOOLEAN :
          AmountCall("mul", mul(Unwrap(payload).a, Unwrap(payload).rhs,
                                overflow_checks))

MulU128 ==
    /\ Unwrap(payload).kind = "pair"
    /\ \E overflow_checks \in BOOLEAN :
          AmountCall("mul_u128", mul_u128(Unwrap(payload).a,
                                          Unwrap(payload).rhs,
                                          overflow_checks))

ANext ==
    \/ FromHexStr
    \/ ToHexStr
    \/ HexRoundTrip
    \/ FromStrWithDecimals
    \/ ToStrWithDecimals
    \/ DecimalRoundTrip
    \/ FromTokens
    \/ FromVslTokens
    \/ CheckedAdd
    \/ CheckedSub
    \/ Add
    \/ Sub
    \/ Mul
    \/ MulU128

AmountSpec == AInit /\ [][ANext]_vars

----------------------------------------------------------------------------
(* Properties of Amount *)

\* the last call was op
Was(op) == returned # None /\ Unwrap(returned).op = op

\* C23: from_hex_str accepts exactly the texts 0x0 and 0x followed by one
\* or more hex digits with a first digit other than 0, and rejects every
\* other text: one without the 0x prefix, one with a leading zero after the
\* prefix, one with no digit, one with a character after the prefix that is
\* not a hex digit.
C23_FromHexStrAcceptsCanonicalOnly ==
    LET \* the text is 0x0, or 0x and one or more hex digits of which the first is
        \* not 0
        CanonicalHex(s) ==
            \/ s = <<"0", "x", "0">>
            \/ /\ Len(s) >= 3
               /\ StartsWith(s, <<"0", "x">>)
               /\ s[3] # "0"
               /\ \A i \in 3..Len(s) : IsHexChar(s[i])
    IN
    Was("from_hex_str") =>
        (Unwrap(returned).value.ok <=> CanonicalHex(Unwrap(returned).of.s))

\* C24: formatting then parsing an amount is the identity: for every amount
\* a and decimals count d with 10^d representable,
\* from_str_with_decimals(to_str_with_decimals(a, d), d) is a, and for every
\* amount a, from_hex_str(to_hex_str(a)) is a.
C24_FormatThenParseIsIdentity ==
    /\ Was("hex_round_trip") =>
          Unwrap(returned).value = Ok(Unwrap(returned).of.a)
    /\ (Was("decimal_round_trip")
          /\ u128_checked_pow(10, Unwrap(returned).of.decimals) # None) =>
          Unwrap(returned).value = Ok(Unwrap(returned).of.a)

\* a non-empty text of decimal digits
IsDigits(s) == Len(s) > 0 /\ \A i \in 1..Len(s) : IsDecimalChar(s[i])

\* the number of dots in a text
Dots(s) == Cardinality({i \in 1..Len(s) : s[i] = "."})

\* the digits after the dot of a text with one dot, none for a text without
Fraction(s) == IF Dots(s) = 0 THEN <<>> ELSE split(s, ".")[2]

\* C25: from_str_with_decimals(s, d), for every d: digits with no fractional
\* part parse to that number of whole tokens, from_tokens(n, d); units.frac
\* with at most d fraction digits parses to units * 10^d + frac scaled to d
\* digits; and the result is TooManyDecimals if and only if the fractional
\* part has more than d digits.  Values are those that fit the integer type.
C25_ParsesDecimalText ==
    Was("from_str_with_decimals") =>
        LET s == Unwrap(returned).of.s
            d == Unwrap(returned).of.decimals
            value == Unwrap(returned).value
        IN  /\ (IsDigits(s) /\ from_tokens(DecimalDigitsValue(s), d).ok) =>
                  value = from_tokens(DecimalDigitsValue(s), d)
            /\ ( /\ Dots(s) = 1
                 /\ IsDigits(split(s, ".")[1])
                 /\ IsDigits(Fraction(s))
                 /\ Len(Fraction(s)) <= d
                 /\ DecimalDigitsValue(split(s, ".")[1]) * 10 ^ d
                      + DecimalDigitsValue(Fraction(s))
                          * 10 ^ (d - Len(Fraction(s))) <= AmountMax ) =>
                  value = Ok(DecimalDigitsValue(split(s, ".")[1]) * 10 ^ d
                             + DecimalDigitsValue(Fraction(s))
                                 * 10 ^ (d - Len(Fraction(s))))
            /\ Dots(s) <= 1 =>
                  (value = Err("TooManyDecimals") <=> Len(Fraction(s)) > d)

\* C26: no arithmetic operation on Amount (addition, subtraction,
\* multiplication by an Amount or an integer, conversion from a token
\* count) returns a result that wrapped around: a returned value is the
\* exact result, and when the exact result does not fit the operation fails.
C26_ArithmeticNeverWraps ==
    LET \* the exact result, over the integers, of an arithmetic call on Amount
        Exact(op, of) ==
            CASE op \in {"add", "checked_add"} -> of.a + of.rhs
              [] op \in {"sub", "checked_sub"} -> of.a - of.rhs
              [] op \in {"mul", "mul_u128"} -> of.a * of.rhs
              [] op = "from_tokens" -> of.a * 10 ^ of.decimals
              [] op = "from_vsl_tokens" -> of.a * TokenUnit
    IN
    /\ \A op \in {"add", "sub", "mul", "mul_u128", "from_tokens",
                  "from_vsl_tokens"} :
          (Was(op) /\ Unwrap(returned).value.ok) =>
              Unwrap(returned).value.val
                  = Exact(op, Unwrap(returned).of)
    /\ \A op \in {"checked_add", "checked_sub"} :
          (Was(op) /\ Unwrap(returned).value # None) =>
              Unwrap(returned).value
                  = Some(Exact(op, Unwrap(returned).of))

----------------------------------------------------------------------------
(* Timestamp (timestamp.rs): seconds and nanoseconds since the epoch *)

\* u64::MAX and u32::MAX at the widths of the model
SecondsMax == 2 ^ SecondsBits - 1

NanosMax == 2 ^ NanosBits - 1

\* struct Timestamp { seconds: u64, nanos: u32 }
Timestamp(seconds, nanos) == [seconds |-> seconds, nanos |-> nanos]

from_seconds(seconds) == Timestamp(seconds, 0)

\* format!("{}.{}", self.seconds, self.nanos)
to_string(t) == U64ToString(t.seconds) \o <<".">> \o U64ToString(t.nanos)

\* tick that never carries into the seconds
tick_without_carry(t, overflow_checks) ==
    IF t.nanos + 1 <= NanosMax
    THEN Ok(Timestamp(t.seconds, t.nanos + 1))
    ELSE IF overflow_checks THEN Err("panic")
    ELSE Ok(Timestamp(t.seconds, 0))

\* Timestamp::tick: the two additions are unchecked, so a sum that does not
\* fit panics in a build with overflow checks and wraps in one without
tick(t, overflow_checks) ==
    IF t.nanos = NanosPerSecond - 1
    THEN IF t.seconds + 1 <= SecondsMax
         THEN Ok(Timestamp(t.seconds + 1, 0))
         ELSE IF overflow_checks THEN Err("panic")
         ELSE Ok(Timestamp(0, 0))
    ELSE IF t.nanos + 1 <= NanosMax
         THEN Ok(Timestamp(t.seconds, t.nanos + 1))
         ELSE IF overflow_checks THEN Err("panic")
         ELSE Ok(Timestamp(t.seconds, 0))

\* u64::from_str and u32::from_str: an optional + sign, then one or more
\* decimal digits, and a value that fits the type
unsigned_from_str(s, max) ==
    LET d == IF Len(s) > 0 /\ s[1] = "+" THEN Tail(s) ELSE s
    IN  IF Len(d) = 0 THEN Err("ParseIntError")
        ELSE IF \E i \in 1..Len(d) : ~IsDecimalChar(d[i])
             THEN Err("ParseIntError")
        ELSE IF DecimalDigitsValue(d) > max THEN Err("ParseIntError")
        ELSE Ok(DecimalDigitsValue(d))

\* impl FromStr for Timestamp
Timestamp_from_str(s) ==
    LET u64_from_str(part) == unsigned_from_str(part, SecondsMax)
        u32_from_str(part) == unsigned_from_str(part, NanosMax)
    IN
    LET parts == split(s, ".")
    IN  IF Len(parts) # 2 THEN Err("ParseTimestampError")
        ELSE LET seconds == u64_from_str(parts[1])
                 nanos == u32_from_str(parts[2])
             IN  IF ~seconds.ok THEN Err("ParseTimestampError")
                 ELSE IF ~nanos.ok THEN Err("ParseTimestampError")
                 ELSE IF nanos.val >= NanosPerSecond
                      THEN Err("ParseTimestampError")
                 ELSE Ok(Timestamp(seconds.val, nanos.val))

\* impl Ord for Timestamp: by seconds, then by nanos
cmp(a, b) ==
    IF a.seconds < b.seconds THEN "Less"
    ELSE IF a.seconds > b.seconds THEN "Greater"
    ELSE IF a.nanos < b.nanos THEN "Less"
    ELSE IF a.nanos > b.nanos THEN "Greater"
    ELSE "Equal"

\* every value of the type, and those that keep nanos below one second
Timestamps == {Timestamp(s, n) : s \in 0..SecondsMax, n \in 0..NanosMax}

ValidTimestamps == {t \in Timestamps : t.nanos < NanosPerSecond}

\* faucet_verifier.rs 164: `old_seconds + settings.min_waiting_time > now`,
\* the test of the waiting time on u64 values; the addition is unchecked
too_early(old_seconds, min_waiting_time, now, overflow_checks) ==
    IF old_seconds + min_waiting_time <= SecondsMax
    THEN Ok(old_seconds + min_waiting_time > now)
    ELSE IF overflow_checks THEN Err("panic")
    ELSE Ok((old_seconds + min_waiting_time) % (SecondsMax + 1) > now)

TInit ==
    LET \* what a caller may hold: a text to parse, a number of seconds, or a
        \* timestamp (one that was deserialized may have any nanos)
        TimestampInputs ==
            {[kind |-> "text", s |-> t]
                : t \in TextsUpTo(4, {"0", "1", "5", "9", ".", "+"})}
            \cup {[kind |-> "seconds", seconds |-> s] : s \in 0..SecondsMax}
            \cup {[kind |-> "timestamp", t |-> t] : t \in Timestamps}
            \* or a stored second, a waiting time and a reading of the clock
            \cup {[kind |-> "waiting", old_seconds |-> o, min_waiting_time |-> m,
                   now |-> n]
                    : o \in 0..SecondsMax, m \in 0..SecondsMax,
                      n \in 0..SecondsMax}
    IN
    /\ session = "none"
    /\ key = "none"
    /\ address = "none"
    /\ nonce = 0
    /\ adopted = FALSE
    /\ remote_nonce = [a \in Accounts |-> 0]
    /\ sent = 0
    /\ wire = None
    /\ last = NoCall
    /\ vstate = "init"
    /\ db = [a \in Addresses |-> None]
    /\ clock = 0
    /\ settings = DefaultSettings
    /\ vlast = NoIteration
    /\ settlements = <<>>
    /\ payload \in {Some(i) : i \in TimestampInputs}
    /\ signed_message = None
    /\ returned = None
    /\ NoFaucet

\* a call of a function of Timestamp on what the caller holds
TimestampCall(op, value) ==
    /\ Called(op, Unwrap(payload), value)
    /\ UNCHANGED <<svars, vvars, payload, signed_message, fvars>>

FromSeconds ==
    /\ Unwrap(payload).kind = "seconds"
    /\ TimestampCall("from_seconds", Ok(from_seconds(Unwrap(payload).seconds)))

TimestampToString ==
    /\ Unwrap(payload).kind = "timestamp"
    /\ TimestampCall("to_string", Ok(to_string(Unwrap(payload).t)))

FromStr ==
    /\ Unwrap(payload).kind = "text"
    /\ TimestampCall("from_str", Timestamp_from_str(Unwrap(payload).s))

TimestampTick ==
    /\ Unwrap(payload).kind = "timestamp"
    /\ \E overflow_checks \in BOOLEAN :
          TimestampCall("tick", tick(Unwrap(payload).t, overflow_checks))

\* formatting a timestamp and parsing the text
TimestampRoundTrip ==
    /\ Unwrap(payload).kind = "timestamp"
    /\ TimestampCall("round_trip",
                     Timestamp_from_str(to_string(Unwrap(payload).t)))

\* the verifier tests the waiting time of a submitter
TooEarly ==
    /\ Unwrap(payload).kind = "waiting"
    /\ \E overflow_checks \in BOOLEAN :
          TimestampCall("too_early",
                        too_early(Unwrap(payload).old_seconds,
                                  Unwrap(payload).min_waiting_time,
                                  Unwrap(payload).now, overflow_checks))

TNext ==
    \/ FromSeconds
    \/ TimestampToString
    \/ FromStr
    \/ TimestampTick
    \/ TimestampRoundTrip
    \/ TooEarly

TimestampSpec == TInit /\ [][TNext]_vars

----------------------------------------------------------------------------
(* Properties of Timestamp *)

\* the largest timestamp with nanos below one second
LargestTimestamp == Timestamp(SecondsMax, NanosPerSecond - 1)

\* C27: for every timestamp t with nanos below one second, other than the
\* largest one, tick(t) is (seconds, nanos + 1) when nanos is not the last
\* nanosecond of the second and (seconds + 1, 0) when it is; it is strictly
\* greater than t, and no timestamp with nanos below one second lies
\* strictly between t and tick(t).
C27_TickIsImmediateSuccessor ==
    (/\ Was("tick")
     /\ Unwrap(returned).of.t \in ValidTimestamps
     /\ Unwrap(returned).of.t # LargestTimestamp)
    => LET t == Unwrap(returned).of.t
           r == Unwrap(returned).value
       IN  /\ r.ok
           /\ r.val = IF t.nanos < NanosPerSecond - 1
                      THEN Timestamp(t.seconds, t.nanos + 1)
                      ELSE Timestamp(t.seconds + 1, 0)
           /\ cmp(t, r.val) = "Less"
           /\ \A u \in ValidTimestamps :
                  ~(cmp(t, u) = "Less" /\ cmp(u, r.val) = "Less")

\* tick was applied to the last nanosecond of a second and carried
C27_Witness ==
    /\ Was("tick")
    /\ Unwrap(returned).of.t \in ValidTimestamps
    /\ Unwrap(returned).of.t # LargestTimestamp
    /\ Unwrap(returned).of.t.nanos = NanosPerSecond - 1
    /\ Unwrap(returned).value.ok
    /\ Unwrap(returned).value.val.nanos = 0

\* C28: every timestamp returned by from_seconds, by a successful from_str,
\* or by tick of a timestamp with nanos below one second has nanos below one
\* second; from_str succeeds only on texts of the form seconds.nanos with
\* exactly one dot, both parts non-empty decimal numbers and nanos below one
\* second; and parsing the text of such a timestamp gives the timestamp back.
C28_NanosBelowOneSecond ==
    LET \* the text is one or more decimal digits, a dot, and one or more decimal
        \* digits of a value below one second
        SecondsDotNanos(s) ==
            /\ Dots(s) = 1
            /\ IsDigits(split(s, ".")[1])
            /\ IsDigits(split(s, ".")[2])
            /\ DecimalDigitsValue(split(s, ".")[2]) < NanosPerSecond
    IN
    /\ (Was("from_seconds") \/ Was("from_str"))
       => (Unwrap(returned).value.ok
             => Unwrap(returned).value.val.nanos < NanosPerSecond)
    /\ (Was("tick") /\ Unwrap(returned).of.t \in ValidTimestamps)
       => (Unwrap(returned).value.ok
             => Unwrap(returned).value.val.nanos < NanosPerSecond)
    /\ (Was("from_str") /\ Unwrap(returned).value.ok)
       => SecondsDotNanos(Unwrap(returned).of.s)
    /\ (Was("round_trip") /\ Unwrap(returned).of.t \in ValidTimestamps)
       => /\ Unwrap(returned).value.ok
          /\ Unwrap(returned).value.val = Unwrap(returned).of.t

\* C29: an iteration that rejects its claim at one of the checks (signature,
\* verifier set, amount, waiting time, proof) leaves the store of timestamps
\* as it was, sends no settlement request and leaves the nonce of the
\* verifier's session as it was.
C29_RejectionChangesNothing ==
    [][ LET \* the verdicts of an iteration that one of the checks ended: the signature,
            \* the verifier set, the amount, the waiting time, the proof
            CheckRejections ==
                {"signature", "verifier_count", "verifier_parse", "verifier_is_self",
                 "sender", "amount_parse", "amount_max", "waiting_time"} \cup AfterDbGet
        IN
        (vlast'.item # None /\ vlast'.verdict \in CheckRejections) =>
          /\ db' = db
          /\ settlements' = settlements
          /\ sent' = sent
          /\ nonce' = nonce ]_vars

\* a claim was rejected after its proof had been fetched, by a verifier that
\* had stored a timestamp and sent a settlement request before
C29_Witness ==
    /\ vlast.item # None
    /\ vlast.verdict = "proof_validator"
    /\ last.op = "get_settled_claim_by_id"
    /\ db["A2"] # None
    /\ Len(settlements) = 1
    /\ sent = 1

\* C30: the proof lookup (get settled claim by id) is requested only for a
\* claim that has passed the signature, verifier-set and amount checks and
\* whose submitter has no stored record; when a record exists and the
\* minimum interval has elapsed, the claim is accepted without any proof
\* lookup, whatever its `proof` contains.
C30_ProofLookupOnlyWithoutRecord ==
    [][ LET \* get_settled_claim_by_id was requested in the iteration
            LookupRequested(it) ==
                \E i \in 1..Len(it.trace) : it.trace[i] = "proof_lookup"
            \* the signature, verifier-set and amount checks pass on a delivered item
            PassesEarlyChecks(item) ==
                /\ SignerIsSender(item)
                /\ NamesOnlyVerifier(item)
                /\ AmountWithinMax(item)
        IN
        (clock' = clock /\ vlast'.item # None) =>
          /\ LookupRequested(vlast') =>
                /\ PassesEarlyChecks(Unwrap(vlast'.item))
                /\ db[Unwrap(sender(Unwrap(vlast'.item).tx))] = None
          /\ ( /\ PassesEarlyChecks(Unwrap(vlast'.item))
               /\ db[Unwrap(sender(Unwrap(vlast'.item).tx))] # None
               /\ StoredFor(Unwrap(vlast'.item)).ok
               /\ clock - StoredFor(Unwrap(vlast'.item)).val
                     >= settings.min_waiting_time ) =>
                /\ vlast'.verdict \in {"encode", "db_insert", "settle_claim"}
                /\ ~LookupRequested(vlast') ]_vars

----------------------------------------------------------------------------
(* Errors of the account session *)

\* C36: whenever a mutating operation of the session returns an error to the
\* caller, for whatever reason (signing failure, RPC failure, or a response
\* that does not parse as a claim id or asset id), the local nonce equals its
\* value before the call.
C36_ErrorLeavesNonce ==
    [][ (last'.kind = "mutating" /\ last'.result # "Ok") =>
            nonce' = nonce ]_vars

\* C37: opening a session with an explicit starting nonce adopts that nonce
\* without the remote service: no nonce query is sent, and opening succeeds
\* even when the nonce query would fail.
C37_ExplicitNonceNeedsNoQuery ==
    [][ (session = "none" /\ last'.op = "from_signer" /\ last'.arg # None) =>
            /\ last'.requests = <<>>
            /\ session' = "open"
            /\ nonce' = Unwrap(last'.arg) ]_vars

----------------------------------------------------------------------------
(* A caller that repeats a failed payment *)

\* RpcWrapper::pay as a caller repeats it without end: the same call, with a
\* key that signs and a remote whose answers parse, and without the count of
\* requests, which is no part of the session
pay_repeated(to, amount, net) ==
    LET pay_message ==
            [type |-> "PayMessage",
             from |-> AddressToString(address),
             nonce |-> U64ToString(nonce),
             to |-> AddressToString(to),
             amount |-> amount]
    IN  /\ session = "open"
        /\ net \in RemoteOutcomes(address, pay_message.nonce)
        /\ wire' = Some([from |-> pay_message.from, nonce |-> pay_message.nonce,
                         target |-> None, ok |-> net = "answered"])
        /\ remote_nonce' = RemoteAfter(address, net)
        /\ IF net # "answered"
           THEN /\ UNCHANGED nonce
                /\ Returned("pay", "mutating", <<"vsl_pay">>,
                            "RpcError", Some(pay_message), Some(net))
           ELSE /\ inc_nonce
                /\ Returned("pay", "mutating", <<"vsl_pay">>,
                            "Ok", Some(pay_message), Some(net))
        /\ UNCHANGED <<session, key, address, adopted, sent>>

\* the caller pays, and pays again as long as the payment has not succeeded;
\* `nets` are the outcomes the network may give the request, and the remote
\* rejects a request that reaches it only for its nonce
Repeat(nets) ==
    /\ session = "open"
    /\ ~(last.op = "pay" /\ last.result = "Ok")
    /\ \E to \in Accounts \cup SampleReceivers, amount \in SampleAmounts,
          net \in nets :
          /\ last.op = "pay" => Unwrap(last.arg).to = AddressToString(to)
          \* the remote accepts exactly at the next nonce of the account
          /\ net = "rejected" => nonce # remote_nonce[address]
          /\ pay_repeated(to, amount, net)
    /\ UNCHANGED <<vvars, hvars, fvars>>

RepeatPay ==
    /\ session = "open"
    /\ Repeat(NetOutcomes)

RetryNext ==
    \/ Open
    \/ RepeatPay

\* the caller keeps repeating, and transport failures do not go on for ever:
\* a request that reaches the remote and whose answer reaches the caller
\* is eventually made if it stays possible
RetrySpec ==
    /\ Init
    /\ [][RetryNext]_vars
    /\ WF_vars(Repeat({"rejected", "answered"}))

\* C38: with the session the only user of its account, a remote that accepts
\* a request exactly when it carries the account's next nonce, and transport
\* failures that eventually stop, a caller that keeps repeating a failed
\* mutating call eventually gets a success.  Stated for a session that took
\* its nonce from the remote.
C38_RepeatedCallSucceeds ==
    (adopted /\ last.op = "pay" /\ last.result # "Ok")
        ~> (last.op = "pay" /\ last.result = "Ok")

\* C39: what claim_id_hash feeds to the hash identifies the claim: for two
\* triples (owner, nonce string, claim string) that differ in a component
\* the hashed concatenation owner ++ nonce ++ claim differs, so the ids of
\* two successive computations for different triples differ unless the hash
\* function itself collides.
C39_HashedInputIdentifiesClaim ==
    [][ (/\ returned # None
         /\ returned' # None
         /\ Unwrap(returned').of # Unwrap(returned).of) =>
            Unwrap(returned').value # Unwrap(returned).value ]_vars

----------------------------------------------------------------------------
(* Width of the waiting-time test *)

\* C40: for every 64-bit stored timestamp, minimum interval and clock
\* reading the rate-limit test of the verifier gives the verdict of
\* stored + interval > now over unbounded integers: the addition never
\* overflows in a way that changes the verdict or aborts the loop.
C40_WaitingTimeTestIsExact ==
    Was("too_early") =>
        /\ Unwrap(returned).value.ok
        /\ Unwrap(returned).value.val =
              (Unwrap(returned).of.old_seconds
                  + Unwrap(returned).of.min_waiting_time
                      > Unwrap(returned).of.now)

----------------------------------------------------------------------------
(* The rate of settlement calls *)

----------------------------------------------------------------------------
(* The rate limit is per submitter *)

\* C32: the state of the rate limit is per submitter: processing a claim of
\* submitter A changes no entry of the store but the one under A's address,
\* and whether the claim is accepted depends on no other entry: with an
\* entry of A read, the claim is rejected as too early exactly when A's own
\* entry says so, and it is accepted only if A's own entry lets it pass or,
\* with no entry of A read, its proof does.
C32_RateLimitIsPerSubmitter ==
    [][ (vlast'.item # None /\ (vlast' # vlast \/ settlements' # settlements)) =>
          LET A == Unwrap(sender(Unwrap(vlast'.item).tx))
              Accepted == settlements' # settlements
              OwnEntry == check_waiting_time(Unwrap(db[A]),
                                             settings.min_waiting_time, clock)
          IN  /\ \A b \in Addresses \ {A} : db'[b] = db[b]
              /\ vlast'.get = "found" =>
                    /\ db[A] # None
                    /\ vlast'.verdict = "waiting_time" <=> OwnEntry = "waiting_time"
                    /\ Accepted => OwnEntry = "passed"
              /\ (Accepted /\ vlast'.get # "found") =>
                    check_proof(Unwrap(vlast'.item).tx.proof, TRUE, A,
                                settings.validator_address,
                                settings.master_account_address) = "passed" ]_vars

\* the claim of a submitter was accepted while the entry of another
\* submitter was inside its waiting time
C32_Witness ==
    /\ vlast.verdict = "settle_claim"
    /\ \E b \in Addresses \ {Unwrap(sender(Unwrap(vlast.item).tx))} :
          /\ db[b] # None
          /\ check_waiting_time(Unwrap(db[b]), settings.min_waiting_time, clock)
                = "waiting_time"
          /\ db[Unwrap(sender(Unwrap(vlast.item).tx))] = Some(encode_to_vec(clock))

----------------------------------------------------------------------------
(* The faucet: examples/faucet/faucet.rs *)

\* the Settings the faucet loads: its key, the validator that signs settled
\* claims, the verifier it trusts and the largest amount it pays, in tokens
FaucetSettings ==
    [private_key |-> "k2", validator_address |-> "A5",
     verifier_address |-> "A1", max_amount |-> 1]

\* rpc_wrapper::parse_amount: the amount that a text in the hex form names
parse_amount(text) == from_hex_str(text)

\* HashSet::insert that reports every value as new
HashSet_insert_always_new(set, value) ==
    [set |-> set \cup {value}, new |-> TRUE]

\* HashSet::insert: the set with the value, and whether the value was new
HashSet_insert(set, value) ==
    [set |-> set \cup {value}, new |-> value \notin set]

\* what vsl_listSettledClaimsForSender may hold: settled claims with their
\* timestamps
FaucetItems ==
    LET Listed(t, owner, claim, id, verifiers, signer) ==
            LET tx == [type |-> "SettledVerifiedClaim",
                       verified_claim |-> [type |-> "VerifiedClaim",
                                           claim |-> claim, claim_id |-> id,
                                           claim_owner |-> owner],
                       verifiers |-> verifiers]
            IN  [timestamp |-> t,
                 data |-> [tx |-> tx,
                           signature |-> IF signer = "A0" THEN MalformedSignature
                                         ELSE SignatureBy(signer, tx)]]
        One == to_hex_str(1)
        Early == Timestamp(0, 0)
    IN  \* claims the faucet pays, one of them listed at several times
        {Listed(t, "A3", One, "c1", <<"A1">>, "A5")
            : t \in {Early, Timestamp(1, NanosPerSecond - 1),
                     Timestamp(SecondsMax, NanosPerSecond - 1)}}
        \cup {Listed(t, "A6", to_hex_str(from_vsl_tokens(1)), "c2",
                     <<"A4", "A1">>, "A5")
                : t \in {Early, Timestamp(1, 0)}}
        \* claims that fail one check each
        \cup {Listed(Early, "A3", One, "c3", <<"A1">>, "A0"),
              Listed(Early, "A3", One, "c3", <<"A1">>, "A3"),
              [Listed(Early, "A3", One, "c3", <<"A1">>, "A5")
                  EXCEPT !.data.signature = SignatureBy("A5", <<>>)],
              Listed(Early, "A3", One, "c3", <<"A4">>, "A5"),
              Listed(Early, "A3", <<"1">>, "c3", <<"A1">>, "A5"),
              Listed(Timestamp(1, 0), "A3",
                     to_hex_str(from_vsl_tokens(1) + 1), "c1", <<"A1">>, "A5")}

\* lines 64-67: the cursor, the empty set of claims and the session, opened
\* without a nonce; an error of from_private_key_str ends main
FStart ==
    /\ fstate = "init"
    /\ \E query \in {"ok", "err"} :
          /\ from_signer(FaucetSettings.private_key, None, query)
          /\ fstate' = IF query = "ok" THEN "running" ELSE "stopped"
    /\ max_ts' = from_seconds(0)
    /\ claims' = {}
    /\ UNCHANGED <<response, vvars, hvars>>

\* lines 69-75: with nothing left of the last listing the faucet lists the
\* claims settled since max_ts; the remote answers with up to MaxListed of
\* the claims recorded since then, and a failed request ends the faucet
FList ==
    /\ fstate = "running"
    /\ response = <<>>
    /\ \E ok \in BOOLEAN :
          IF ~ok
          THEN /\ fstate' = "stopped"
               /\ UNCHANGED response
          ELSE /\ response' \in
                    {r \in UNION {[1..n -> FaucetItems] : n \in 1..MaxListed} :
                        \A i \in 1..Len(r) : cmp(r[i].timestamp, max_ts) # "Less"}
               /\ UNCHANGED fstate
    /\ UNCHANGED <<max_ts, claims, svars, vvars, hvars>>

\* lines 76-132: the faucet goes through the next listed claim
FStep ==
    /\ fstate = "running"
    /\ response # <<>>
    /\ LET ts_claim == Head(response)
           settled_claim == ts_claim.data.tx
           signer == recover_address(settled_claim, ts_claim.data.signature)
           max_amount == from_vsl_tokens(FaucetSettings.max_amount)
           faucet_client == settled_claim.verified_claim.claim_owner
           amount == parse_amount(settled_claim.verified_claim.claim)
           claim_hash == settled_claim.verified_claim.claim_id
       IN  \E overflow_checks \in BOOLEAN :
           \E ticked \in {tick(ts_claim.timestamp, overflow_checks)} :
             IF ~ticked.ok
             THEN /\ fstate' = "stopped"
                  /\ UNCHANGED <<max_ts, claims, response, svars>>
             ELSE /\ max_ts' = IF cmp(ticked.val, max_ts) = "Less" THEN max_ts
                               ELSE ticked.val
                  /\ response' = Tail(response)
                  /\ UNCHANGED fstate
                  /\ IF \/ signer = None
                        \/ Unwrap(signer) # FaucetSettings.validator_address
                        \/ \A i \in 1..Len(settled_claim.verifiers) :
                              settled_claim.verifiers[i]
                                  # FaucetSettings.verifier_address
                        \/ ~amount.ok
                     THEN UNCHANGED <<claims, svars>>
                     ELSE \E inserted \in {HashSet_insert(claims, claim_hash)} :
                          /\ claims' = inserted.set
                          /\ IF ~inserted.new \/ amount.val > max_amount
                             THEN UNCHANGED svars
                             ELSE \E net \in NetOutcomes, parses \in BOOLEAN :
                                     pay(faucet_client, to_hex_str(amount.val),
                                         TRUE, net, parses)
    /\ UNCHANGED <<vvars, hvars>>

FNext ==
    \/ FStart
    \/ FList
    \/ FStep

FaucetSpec == Init /\ [][FNext]_vars

\* C33: within one run of the faucet there is at most one pay attempt for a
\* claim id: the set of ids only grows, a pay call is made only for a listed
\* claim whose id is not in the set, the id is in the set once the call has
\* been made, whether it succeeded or failed, and a listed claim whose id is
\* in the set is passed over without a pay call.
C33_OnePayAttemptPerClaim ==
    [][ /\ claims \subseteq claims'
        /\ sent' # sent =>
              /\ response # <<>>
              /\ Head(response).data.tx.verified_claim.claim_id \notin claims
              /\ Head(response).data.tx.verified_claim.claim_id \in claims'
        /\ (/\ response # <<>>
            /\ response' # response
            /\ Head(response).data.tx.verified_claim.claim_id \in claims) =>
              /\ sent' = sent
              /\ last' = last ]_vars

\* a claim whose pay call failed is listed again and is the next to be gone
\* through
C33_Witness ==
    /\ fstate = "running"
    /\ response # <<>>
    /\ Head(response).data.tx.verified_claim.claim_id \in claims
    /\ last.op = "pay"
    /\ last.result # "Ok"
    /\ Unwrap(last.arg).to
          = AddressToString(Head(response).data.tx.verified_claim.claim_owner)
    /\ sent = 1

\* C34: the faucet calls pay only for a listed settled claim that carries a
\* signature of the configured validator over the claim, that names the
\* configured verifier among its verifiers, whose claim text is the hex form
\* of an amount not above the maximum and whose id has not been seen; the
\* payment goes to the owner of the claim and is of exactly that amount.
C34_PaysOnlyVerifiedClaims ==
    [][ sent' # sent =>
          /\ response # <<>>
          /\ LET settled_claim == Head(response).data.tx
                 signature == Head(response).data.signature
                 amount == parse_amount(settled_claim.verified_claim.claim)
             IN  /\ signature.wellformed
                 /\ signature.by = FaucetSettings.validator_address
                 /\ signature.over = settled_claim
                 /\ \E i \in 1..Len(settled_claim.verifiers) :
                       settled_claim.verifiers[i] = FaucetSettings.verifier_address
                 /\ amount.ok
                 /\ amount.val <= from_vsl_tokens(FaucetSettings.max_amount)
                 /\ settled_claim.verified_claim.claim_id \notin claims
                 /\ last'.op = "pay"
                 /\ wire' # None
                 /\ Unwrap(wire').from = AddressToString(address)
                 /\ Unwrap(last'.arg).to
                       = AddressToString(settled_claim.verified_claim.claim_owner)
                 /\ from_hex_str(Unwrap(last'.arg).amount).ok
                 /\ from_hex_str(Unwrap(last'.arg).amount).val = amount.val ]_vars

\* the faucet has paid the largest amount to the owner of a claim that two
\* verifiers settled
C34_Witness ==
    /\ fstate = "running"
    /\ last.op = "pay"
    /\ last.result = "Ok"
    /\ Unwrap(last.arg).to = AddressToString("A6")
    /\ Unwrap(last.arg).amount = to_hex_str(from_vsl_tokens(FaucetSettings.max_amount))
    /\ claims = {"c2"}

\* C35: the cursor of the listing never decreases, and once a claim listed
\* with timestamp t has been taken from a listing, paid or passed over, the
\* cursor is strictly greater than t.
C35_CursorPassesTakenClaims ==
    [][ fstate = "running" =>
          /\ fstate' = "running" => cmp(max_ts', max_ts) # "Less"
          /\ response # <<>> =>
                /\ response' = Tail(response)
                /\ cmp(max_ts', Head(response).timestamp) = "Greater" ]_vars

====
